---------------------------- MODULE Spec2Model ----------------------------
(***************************************************************************)
(* Price & discount extraction engine of PriceWatch (utils/price-parser).  *)
(*                                                                         *)
(* Texts are sequences of one-character strings.  Numbers are exact        *)
(* decimals <<m, e>> standing for m / 10^e, kept canonical (no trailing    *)
(* zero in the fraction), so that equal amounts are equal tuples.          *)
(* An optional value is a sequence of length 0 (absent) or 1 (present).    *)
(***************************************************************************)
EXTENDS Integers, Sequences, FiniteSets, TLC

(***************************************************************************)
(* Bounds of the model.                                                    *)
(***************************************************************************)
\* longest text of the exhaustive text family
MaxLen == 4
\* longest leading digit run of the '$' amount family
MaxLead == 4
\* largest amount, in cents, of the parsePrices price grid
MaxCents == 8

MaxCopies == 2

MaxPageTokens == 3

(***************************************************************************)
(* Optional values.                                                        *)
(***************************************************************************)
Absent == <<>>

Some(x) == <<x>>

IsPresent(o) == Len(o) = 1

Get(o) == o[1]

(***************************************************************************)
(* Character classes of the regular expressions (\d, \w, \s) and           *)
(* String.prototype.toLowerCase on the letters the model uses.             *)
(***************************************************************************)
Digits == {"0", "1", "2", "3", "4", "5", "6", "7", "8", "9"}

LowerLetters ==
  {"a", "b", "c", "d", "e", "f", "g", "h", "i", "j", "k", "l", "m",
   "n", "o", "p", "q", "r", "s", "t", "u", "v", "w", "x", "y", "z"}

UpperLetters ==
  {"A", "B", "C", "D", "E", "F", "G", "H", "I", "J", "K", "L", "M",
   "N", "O", "P", "Q", "R", "S", "T", "U", "V", "W", "X", "Y", "Z"}

WhiteSpace == {" ", "\t", "\n"}

LineTerminators == {"\n", "\r"}

IsDigit(c) == c \in Digits

IsWordChar(c) == c \in Digits \cup LowerLetters \cup UpperLetters \cup {"_"}

IsSpace(c) == c \in WhiteSpace

LowerOf ==
  [c \in UpperLetters |->
     CASE c = "A" -> "a" [] c = "B" -> "b" [] c = "C" -> "c" [] c = "D" -> "d"
       [] c = "E" -> "e" [] c = "F" -> "f" [] c = "G" -> "g" [] c = "H" -> "h"
       [] c = "I" -> "i" [] c = "J" -> "j" [] c = "K" -> "k" [] c = "L" -> "l"
       [] c = "M" -> "m" [] c = "N" -> "n" [] c = "O" -> "o" [] c = "P" -> "p"
       [] c = "Q" -> "q" [] c = "R" -> "r" [] c = "S" -> "s" [] c = "T" -> "t"
       [] c = "U" -> "u" [] c = "V" -> "v" [] c = "W" -> "w" [] c = "X" -> "x"
       [] c = "Y" -> "y" [] c = "Z" -> "z"]

LowerChar(c) == IF c \in UpperLetters THEN LowerOf[c] ELSE c

toLowerCase(s) == [i \in 1..Len(s) |-> LowerChar(s[i])]

\* the character at position i, or "" outside the text
At(s, i) == IF i >= 1 /\ i <= Len(s) THEN s[i] ELSE ""

\* needle occurs in s starting at position i
OccursAt(s, needle, i) ==
  /\ i >= 1
  /\ i + Len(needle) - 1 <= Len(s)
  /\ \A k \in 1..Len(needle) : s[i + k - 1] = needle[k]

\* String.prototype.includes
includes(s, needle) == \E i \in 1..(Len(s) + 1) : OccursAt(s, needle, i)

\* String.prototype.trim
RECURSIVE TrimLeft(_)
TrimLeft(s) == IF s # <<>> /\ IsSpace(Head(s)) THEN TrimLeft(Tail(s)) ELSE s

RECURSIVE TrimRight(_)
TrimRight(s) ==
  IF s # <<>> /\ IsSpace(s[Len(s)]) THEN TrimRight(SubSeq(s, 1, Len(s) - 1)) ELSE s

trim(s) == TrimRight(TrimLeft(s))

\* \b between positions i-1 and i
WordBoundary(s, i) == IsWordChar(At(s, i - 1)) # IsWordChar(At(s, i))

\* length of the digit run starting at position i
RECURSIVE DigitRun(_, _)
DigitRun(s, i) == IF IsDigit(At(s, i)) THEN 1 + DigitRun(s, i + 1) ELSE 0

Min(a, b) == IF a < b THEN a ELSE b

(***************************************************************************)
(* Numbers: exact decimals <<m, e>> = m / 10^e.                            *)
(***************************************************************************)
RECURSIVE Pow10(_)
Pow10(n) == IF n = 0 THEN 1 ELSE 10 * Pow10(n - 1)

DigitVal ==
  [c \in Digits |->
     CASE c = "0" -> 0 [] c = "1" -> 1 [] c = "2" -> 2 [] c = "3" -> 3
       [] c = "4" -> 4 [] c = "5" -> 5 [] c = "6" -> 6 [] c = "7" -> 7
       [] c = "8" -> 8 [] c = "9" -> 9]

RECURSIVE DigitsToNat(_)
DigitsToNat(ds) ==
  IF ds = <<>> THEN 0
  ELSE 10 * DigitsToNat(SubSeq(ds, 1, Len(ds) - 1)) + DigitVal[ds[Len(ds)]]

RECURSIVE Canon(_)
Canon(n) == IF n[2] > 0 /\ n[1] % 10 = 0 THEN Canon(<<n[1] \div 10, n[2] - 1>>) ELSE n

Whole(k) == <<k, 0>>

NumLess(a, b) == a[1] * Pow10(b[2]) < b[1] * Pow10(a[2])

NumLeq(a, b) == a[1] * Pow10(b[2]) <= b[1] * Pow10(a[2])

\* mutant: 'parsed >= 0' for 'parsed > 0'
IsNonNegative(a) == a[1] >= 0

IsPositive(a) == a[1] > 0

(***************************************************************************)
(* IEEE-754 double arithmetic, as far as the discount needs it.  A natural *)
(* number of any size is a little-endian sequence of limbs below LimbBase  *)
(* with no leading zero limb; a positive double is <<M, E>> = M * 2^E with *)
(* 2^52 <= M < 2^53.  Carries and borrows are found by look-ahead, so no   *)
(* limb operation recurses.                                                *)
(***************************************************************************)
LimbBits == 15

LimbBase == 32768

MantissaBits == 53

PowersOfTwo ==
  <<1, 2, 4, 8, 16, 32, 64, 128, 256, 512, 1024, 2048, 4096, 8192, 16384, 32768>>

\* 2^n for n in 0..LimbBits
Pow2(n) == PowersOfTwo[n + 1]

Max(a, b) == IF a > b THEN a ELSE b

Limb(a, i) == IF 1 <= i /\ i <= Len(a) THEN a[i] ELSE 0

\* the index of the highest nonzero limb, 0 if there is none
BigTop(a) ==
  IF \A i \in 1..Len(a) : a[i] = 0 THEN 0
  ELSE CHOOSE i \in 1..Len(a) : a[i] # 0 /\ \A j \in (i + 1)..Len(a) : a[j] = 0

BigNorm(a) == SubSeq(a, 1, BigTop(a))

\* for 0 <= n < 2^31
BigOfInt(n) ==
  BigNorm(<<n % LimbBase, (n \div LimbBase) % LimbBase, n \div (LimbBase * LimbBase)>>)

\* for a < 2^31
BigToInt(a) == Limb(a, 1) + LimbBase * Limb(a, 2) + LimbBase * LimbBase * Limb(a, 3)

\* -1, 0 or 1 as a < b, a = b or a > b
BigCmp(a, b) ==
  LET n == Max(Len(a), Len(b))
  IN IF \A i \in 1..n : Limb(a, i) = Limb(b, i) THEN 0
     ELSE LET i == CHOOSE i \in 1..n : /\ Limb(a, i) # Limb(b, i)
                                       /\ \A j \in (i + 1)..n : Limb(a, j) = Limb(b, j)
          IN IF Limb(a, i) < Limb(b, i) THEN -1 ELSE 1

\* the carry into limb i of a + b
CarryInto(a, b, i) ==
  IF \E j \in 1..(i - 1) :
       /\ Limb(a, j) + Limb(b, j) >= LimbBase
       /\ \A k \in (j + 1)..(i - 1) : Limb(a, k) + Limb(b, k) = LimbBase - 1
  THEN 1 ELSE 0

BigAdd(a, b) ==
  BigNorm([i \in 1..(Max(Len(a), Len(b)) + 1) |->
             (Limb(a, i) + Limb(b, i) + CarryInto(a, b, i)) % LimbBase])

\* the borrow out of limb i of a - b
BorrowInto(a, b, i) ==
  IF \E j \in 1..(i - 1) :
       /\ Limb(a, j) < Limb(b, j)
       /\ \A k \in (j + 1)..(i - 1) : Limb(a, k) = Limb(b, k)
  THEN 1 ELSE 0

\* a - b, for a >= b
BigSub(a, b) ==
  BigNorm([i \in 1..Len(a) |->
             (a[i] - Limb(b, i) - BorrowInto(a, b, i) + LimbBase) % LimbBase])

\* a * 2^n
BigShl(a, n) ==
  LET ls == n \div LimbBits
      bs == n % LimbBits
  IN BigNorm([i \in 1..(Len(a) + ls + 1) |->
                (Limb(a, i - ls) % Pow2(LimbBits - bs)) * Pow2(bs)
                  + Limb(a, i - ls - 1) \div Pow2(LimbBits - bs)])

\* floor(a / 2^n)
BigShr(a, n) ==
  LET ls == n \div LimbBits
      bs == n % LimbBits
  IN BigNorm([i \in 1..Len(a) |->
                Limb(a, i + ls) \div Pow2(bs)
                  + (Limb(a, i + ls + 1) % Pow2(bs)) * Pow2(LimbBits - bs)])

\* for 0 <= n < LimbBase
IntBitLen(n) ==
  IF n = 0 THEN 0 ELSE CHOOSE b \in 1..LimbBits : Pow2(b - 1) <= n /\ n < Pow2(b)

BigBitLen(a) == IF Len(a) = 0 THEN 0 ELSE LimbBits * (Len(a) - 1) + IntBitLen(a[Len(a)])

\* bit i of a, bit 0 the lowest
BigBit(a, i) == (Limb(a, i \div LimbBits + 1) \div Pow2(i % LimbBits)) % 2

\* 2 * a + bit, for bit 0 or 1: the top bit of each limb moves into the next
BigTwice(a, bit) ==
  BigNorm([i \in 1..(Len(a) + 1) |->
             2 * (Limb(a, i) % Pow2(LimbBits - 1))
               + (IF i = 1 THEN bit ELSE Limb(a, i - 1) \div Pow2(LimbBits - 1))])

\* one step of long division: bit i of n joins the state <<quotient, remainder>>
BigDivStep(n, d, i, qr) ==
  LET r2 == BigTwice(qr[2], BigBit(n, i))
  IN IF BigCmp(r2, d) >= 0
     THEN <<BigTwice(qr[1], 1), BigSub(r2, d)>>
     ELSE <<BigTwice(qr[1], 0), r2>>

\* the steps for bits hi down to lo of n; the upper half of the range is
\* worked out before the lower half is entered
RECURSIVE BigDivRange(_, _, _, _, _)
BigDivRange(n, d, lo, hi, qr) ==
  IF lo > hi THEN qr
  ELSE IF lo = hi THEN BigDivStep(n, d, lo, qr)
  ELSE LET mid == (lo + hi + 1) \div 2
           upper == BigDivRange(n, d, mid, hi, qr)
       IN IF Len(upper) = 2 THEN BigDivRange(n, d, lo, mid - 1, upper) ELSE upper

\* division of the limbs of a from limb i up by a number d below LimbBase:
\* <<quotient limbs, remainder>>
RECURSIVE BigDivSmallFrom(_, _, _)
BigDivSmallFrom(a, d, i) ==
  IF i > Len(a) THEN <<<<>>, 0>>
  ELSE LET hi == BigDivSmallFrom(a, d, i + 1)
           t == hi[2] * LimbBase + a[i]
       IN <<<<t \div d>> \o hi[1], t % d>>

\* <<quotient, remainder>> of n by d, for d > 0: limb by limb for a divisor
\* of one limb, else bit by bit, where the bits of n above position top are
\* less than d and start as the remainder
BigDivMod(n, d) ==
  IF Len(d) = 1
  THEN LET qr == BigDivSmallFrom(n, d[1], 1)
       IN <<BigNorm(qr[1]), BigOfInt(qr[2])>>
  ELSE LET top == BigBitLen(n) - BigBitLen(d)
       IN IF top < 0 THEN <<<<>>, n>>
          ELSE BigDivRange(n, d, 0, top, <<<<>>, BigShr(n, top + 1)>>)

\* the one member of a set of one member: a value worked out once
Only(S) == CHOOSE x \in S : TRUE

\* <<quotient, remainder, divisor>> of n * 2^k0 by d, the power of two going
\* to the divisor when k0 is negative
ScaledDivision(n, d, k0) ==
  Only({BigDivMod(nd[1], nd[2]) \o <<nd[2]>> :
          nd \in {IF k0 >= 0 THEN <<BigShl(n, k0), d>> ELSE <<n, BigShl(d, -k0)>>}})

\* q rounded to nearest, ties to even: c is -1, 0 or 1 as the part cut off
\* is below, equal to or above half a unit in the last place
RoundToEven(q, c) ==
  IF c > 0 \/ (c = 0 /\ BigBit(q, 0) = 1) THEN BigAdd(q, <<1>>) ELSE q

\* a mantissa that rounding carried to 2^53 is halved
Renormalise(m, e) ==
  Only({IF BigBitLen(v) > MantissaBits THEN <<BigShr(v, 1), e + 1>> ELSE <<v, e>> : v \in {m}})

\* the quotient of ScaledDivision has 53 or 54 bits; of 54 the lowest is
\* rounded away
RoundQuotient(qrd, e) ==
  IF BigBitLen(qrd[1]) > MantissaBits
  THEN Renormalise(RoundToEven(BigShr(qrd[1], 1),
                               IF BigBit(qrd[1], 0) = 0 THEN -1
                               ELSE IF Len(qrd[2]) = 0 THEN 0 ELSE 1),
                   e + 1)
  ELSE Renormalise(RoundToEven(qrd[1], BigCmp(BigShl(qrd[2], 1), qrd[3])), e)

\* the double nearest to (n / d) * 2^e0, ties to even, for n, d > 0
ToNearestDouble(n, d, e0) ==
  Only({Only({RoundQuotient(qrd, e0 - k0) : qrd \in {ScaledDivision(n, d, k0)}}) :
          k0 \in {MantissaBits + BigBitLen(d) - BigBitLen(n)}})

\* the double of a positive decimal m / 10^e
ToDouble(v) == ToNearestDouble(BigOfInt(v[1]), BigOfInt(Pow10(v[2])), 0)

\* a - b in doubles, for a > b > 0
DoubleSub(a, b) ==
  LET e == Min(a[2], b[2])
  IN ToNearestDouble(BigSub(BigShl(a[1], a[2] - e), BigShl(b[1], b[2] - e)), <<1>>, e)

\* a / b in doubles
DoubleDiv(a, b) == ToNearestDouble(a[1], b[1], a[2] - b[2])

\* a * 100 in doubles: 100 = 64 + 32 + 4
DoubleTimes100(a) ==
  ToNearestDouble(BigAdd(BigAdd(BigShl(a[1], 6), BigShl(a[1], 5)), BigShl(a[1], 2)),
                  <<1>>, a[2])

\* Math.round: floor(x + 1/2), computed exactly, for x < 2^31
MathRound(x) ==
  IF x[2] >= 0 THEN BigToInt(BigShl(x[1], x[2]))
  ELSE BigToInt(BigShr(BigAdd(BigShl(x[1], 1), BigShl(<<1>>, -x[2])), 1 - x[2]))

\* Math.round(((regular - current) / regular) * 100) for regular > current > 0,
\* each operation rounded as a double
RoundedPercent(current, regular) ==
  Only({MathRound(DoubleTimes100(DoubleDiv(DoubleSub(r, ToDouble(current)), r))) :
          r \in {ToDouble(regular)}})

\* a * 10 in doubles: 10 = 8 + 2
DoubleTimes10(a) == ToNearestDouble(BigAdd(BigShl(a[1], 3), BigShl(a[1], 1)), <<1>>, a[2])

\* the fraction of the positive double x is exactly one half
IsHalfway(x) ==
  /\ x[2] < 0
  /\ BigBit(x[1], -x[2] - 1) = 1
  /\ BigShl(BigShr(x[1], -x[2] - 1), -x[2] - 1) = x[1]

\* -Math.round(-x) for a positive double x: Math.round takes a half upwards,
\* that is towards zero for a negative number
MathRoundOfNegative(x) == IF IsHalfway(x) THEN MathRound(x) - 1 ELSE MathRound(x)

\* Math.round((((regular - current) / regular) * 100) * 10), each operation
\* rounded as a double, for current # regular, both positive
RoundedTenths(current, regular) ==
  IF NumLess(current, regular)
  THEN Only({MathRound(DoubleTimes10(DoubleTimes100(DoubleDiv(DoubleSub(r, ToDouble(current)), r)))) :
               r \in {ToDouble(regular)}})
  ELSE Only({-MathRoundOfNegative(
                DoubleTimes10(DoubleTimes100(DoubleDiv(DoubleSub(ToDouble(current), r), r)))) :
               r \in {ToDouble(regular)}})

\* parseFloat of digits with an optional fraction (commas already removed)
parseFloat(cleaned) ==
  LET n == DigitRun(cleaned, 1)
      f == IF At(cleaned, n + 1) = "." THEN DigitRun(cleaned, n + 2) ELSE 0
      ds == SubSeq(cleaned, 1, n) \o SubSeq(cleaned, n + 2, n + 1 + f)
  IN Canon(<<DigitsToNat(ds), f>>)

\* match[1].replace(/,/g, '')
RemoveCommas(s) == SelectSeq(s, LAMBDA c : c # ",")

(***************************************************************************)
(* extractNumericPrice: the negative check and the three price patterns.   *)
(* A match is [from |-> first position of group 1, to |-> last position].  *)
(***************************************************************************)
\* text.includes('$-') || /\$\s*-/.test(text)
RECURSIVE SkipSpaces(_, _)
SkipSpaces(s, i) == IF IsSpace(At(s, i)) THEN SkipSpaces(s, i + 1) ELSE i

HasNegativeMarker(text) ==
  \/ includes(text, <<"$", "-">>)
  \/ \E i \in 1..Len(text) : text[i] = "$" /\ At(text, SkipSpaces(text, i + 1)) = "-"

\* (?:,\d{3})* taken greedily from position p: the position after the groups
RECURSIVE AfterGroups(_, _)
AfterGroups(s, p) ==
  IF At(s, p) = "," /\ IsDigit(At(s, p + 1)) /\ IsDigit(At(s, p + 2)) /\ IsDigit(At(s, p + 3))
  THEN AfterGroups(s, p + 4)
  ELSE p

\* (?:\.\d+)? taken greedily from position p: the position after the fraction
AfterFraction(s, p) ==
  IF At(s, p) = "." /\ IsDigit(At(s, p + 1)) THEN p + 1 + DigitRun(s, p + 1) ELSE p

\* /\$(\d{1,3}(?:,\d{3})*(?:\.\d+)?)/ anchored at position i: the position after
\* the match, or 0.  Every part after the first digit is optional, so the
\* greedy choice always succeeds.
DollarPatternEnd(s, i) ==
  IF At(s, i) = "$" /\ IsDigit(At(s, i + 1))
  THEN AfterFraction(s, AfterGroups(s, i + 1 + Min(3, DigitRun(s, i + 1))))
  ELSE 0

\* /\b(\d{1,3}(?:,\d{3})*\.\d{2})\b/ anchored at position i: the position after
\* the match, or 0.  The group count is fixed by where the first '.' stands.
DecimalPatternEnd(s, i) ==
  LET d == DigitRun(s, i)
      p == AfterGroups(s, i + d)
  IN IF /\ WordBoundary(s, i)
        /\ d >= 1 /\ d <= 3
        /\ At(s, p) = "." /\ IsDigit(At(s, p + 1)) /\ IsDigit(At(s, p + 2))
        /\ WordBoundary(s, p + 3)
     THEN p + 3
     ELSE 0

\* /\b(\d+(?:\.\d+)?)\b/ anchored at position i: the position after the match,
\* or 0.  The fraction is given up when no word boundary follows it.
NumberPatternEnd(s, i) ==
  LET d == DigitRun(s, i)
      p == i + d
      q == AfterFraction(s, p)
  IN IF ~(WordBoundary(s, i) /\ d >= 1) THEN 0
     ELSE IF q > p /\ WordBoundary(s, q) THEN q
     ELSE IF WordBoundary(s, p) THEN p
     ELSE 0

\* number of patterns in pricePatterns
NumPatterns == 3

PatternEnd(k, s, i) ==
  CASE k = 1 -> DollarPatternEnd(s, i)
    [] k = 2 -> DecimalPatternEnd(s, i)
    [] k = 3 -> NumberPatternEnd(s, i)

\* group 1 starts after the '$' in the first pattern
GroupStart(k, i) == IF k = 1 THEN i + 1 ELSE i

\* Array.from(text.matchAll(pattern)): the matches from position i on, in
\* source order, each scan resuming where the previous match ended
RECURSIVE MatchesFrom(_, _, _)
MatchesFrom(k, s, i) ==
  IF i > Len(s) THEN <<>>
  ELSE LET e == PatternEnd(k, s, i)
       IN IF e = 0 THEN MatchesFrom(k, s, i + 1)
          ELSE <<[from |-> GroupStart(k, i), to |-> e - 1]>> \o MatchesFrom(k, s, e)

matchAll(text, k) == MatchesFrom(k, text, 1)

Group1(text, m) == SubSeq(text, m.from, m.to)

\* the interpolated match[1] read as a pattern at position q: digits and ','
\* stand for themselves, '.' for any character but a line terminator
MatchesLiteral(s, q, lit) ==
  /\ q + Len(lit) - 1 <= Len(s)
  /\ \A j \in 1..Len(lit) :
       IF lit[j] = "." THEN s[q + j - 1] \notin LineTerminators
       ELSE s[q + j - 1] = lit[j]

\* new RegExp(`save\\s*\\$?${match[1]}\\b`, 'i').test(text)
savePatternTest(text, lit) ==
  LET lower == toLowerCase(text)
  IN \E i \in 1..Len(text) :
       /\ OccursAt(lower, <<"s", "a", "v", "e">>, i)
       /\ \E p \in (i + 4)..SkipSpaces(text, i + 4) :
            \E q \in {p, p + 1} :
              /\ q = p + 1 => At(text, p) = "$"
              /\ MatchesLiteral(text, q, lit)
              /\ WordBoundary(text, q + Len(lit))

\* the small-amount threshold below which a number after 'save' is skipped
SaveThreshold == 50

\* lines 57-70: is this match returned?
IsPlausible(text, lit) ==
  LET parsed == parseFloat(RemoveCommas(lit))
  IN /\ IsPositive(parsed)
     /\ ~(/\ includes(toLowerCase(text), <<"s", "a", "v", "e">>)
          /\ savePatternTest(text, lit)
          /\ NumLess(parsed, Whole(SaveThreshold)))

\* the inner loop (lines 56-72): the first plausible match of the list, if any
RECURSIVE FirstPlausible(_, _)
FirstPlausible(text, matches) ==
  IF matches = <<>> THEN Absent
  ELSE IF IsPlausible(text, Group1(text, Head(matches)))
       THEN Some(parseFloat(RemoveCommas(Group1(text, Head(matches)))))
       ELSE FirstPlausible(text, Tail(matches))

\* one turn of the outer loop (lines 52-74) for pattern k
tryPattern(text, k) == FirstPlausible(text, matchAll(text, k))

\* the outer loop from pattern k on: a pattern that returns nothing hands over
\* to the next one
RECURSIVE cascade(_, _)
cascade(text, k) ==
  IF k > NumPatterns THEN Absent
  ELSE IF IsPresent(tryPattern(text, k)) THEN tryPattern(text, k)
       ELSE cascade(text, k + 1)

extractNumericPrice(text) ==
  IF HasNegativeMarker(text) THEN Absent ELSE cascade(text, 1)

(***************************************************************************)
(* The classifiers of parsePrice.                                          *)
(***************************************************************************)
\* the characters U+20AC and U+00A3, which are no word characters
EuroSign == "u20AC"

PoundSign == "u00A3"

detectCurrency(text) ==
  IF includes(text, <<"$">>) \/ includes(toLowerCase(text), <<"c", "a", "d">>) THEN "CAD"
  ELSE IF includes(text, <<EuroSign>>) THEN "EUR"
  ELSE IF includes(text, <<PoundSign>>) THEN "GBP"
  ELSE "undefined"

saleIndicators ==
  { <<"s", "a", "l", "e">>, <<"s", "a", "v", "e">>, <<"w", "a", "s">>, <<"n", "o", "w">>,
    <<"s", "p", "e", "c", "i", "a", "l">>, <<"p", "r", "o", "m", "o">>,
    <<"d", "i", "s", "c", "o", "u", "n", "t">>,
    <<"c", "l", "e", "a", "r", "a", "n", "c", "e">>,
    <<"r", "e", "d", "u", "c", "e", "d">>, <<"o", "f", "f">>, <<"%">>,
    <<"d", "e", "a", "l">>, <<"m", "e", "m", "b", "e", "r">>,
    <<"o", "p", "t", "i", "m", "u", "m">> }

detectSalePrice(text) ==
  \E indicator \in saleIndicators : includes(toLowerCase(text), indicator)

RECURSIVE WordRun(_, _)
WordRun(s, i) == IF IsWordChar(At(s, i)) THEN 1 + WordRun(s, i + 1) ELSE 0

\* keyword, then \s+, then the rest: the position after the spaces, or 0
AfterKeywordAndSpaces(s, i, keyword) ==
  LET p == i + Len(keyword)
  IN IF OccursAt(s, keyword, i) /\ IsSpace(At(s, p)) THEN SkipSpaces(s, p) ELSE 0

\* /\b(each|per\s+\w+|from|starting\s+at|up\s+to)\b/i anchored at position i of
\* the lower-cased text: the position after the match, or 0
ContextPatternEnd(s, i) ==
  LET per == AfterKeywordAndSpaces(s, i, <<"p", "e", "r">>)
      starting == AfterKeywordAndSpaces(s, i, <<"s", "t", "a", "r", "t", "i", "n", "g">>)
      up == AfterKeywordAndSpaces(s, i, <<"u", "p">>)
  IN IF ~WordBoundary(s, i) THEN 0
     ELSE IF OccursAt(s, <<"e", "a", "c", "h">>, i) /\ WordBoundary(s, i + 4) THEN i + 4
     ELSE IF per > 0 /\ WordRun(s, per) > 0 THEN per + WordRun(s, per)
     ELSE IF OccursAt(s, <<"f", "r", "o", "m">>, i) /\ WordBoundary(s, i + 4) THEN i + 4
     ELSE IF starting > 0 /\ OccursAt(s, <<"a", "t">>, starting)
             /\ WordBoundary(s, starting + 2) THEN starting + 2
     ELSE IF up > 0 /\ OccursAt(s, <<"t", "o">>, up) /\ WordBoundary(s, up + 2) THEN up + 2
     ELSE 0

RECURSIVE ContextFrom(_, _)
ContextFrom(s, i) ==
  IF i > Len(s) THEN Absent
  ELSE IF ContextPatternEnd(s, i) > 0 THEN Some(SubSeq(s, i, ContextPatternEnd(s, i) - 1))
  ELSE ContextFrom(s, i + 1)

extractContext(text) == ContextFrom(toLowerCase(text), 1)

(***************************************************************************)
(* Arguments: a JavaScript value is [type, str, num]; only a string has    *)
(* characters.                                                             *)
(***************************************************************************)
Str(s) == [type |-> "string", str |-> s, num |-> 0]

NullArg == [type |-> "object", str |-> <<>>, num |-> 0]

UndefinedArg == [type |-> "undefined", str |-> <<>>, num |-> 0]

NumberArg(n) == [type |-> "number", str |-> <<>>, num |-> n]

ObjectArg == [type |-> "object", str |-> <<>>, num |-> 1]

\* JavaScript truthiness of an argument
Truthy(a) ==
  CASE a.type = "string" -> a.str # <<>>
    [] a.type = "undefined" -> FALSE
    [] a.type = "number" -> a.num # 0
    [] a.type = "object" -> a.num # 0

\* value.trim() raises a TypeError unless the value is a string: null and
\* undefined have no members, a number or a plain object has no trim
trimCallThrows(value) == value.type # "string"

\* mutant: promoText !== undefined && promoText.trim(), null is not skipped
optionalChainSkipsUndefined(value) == value = UndefinedArg

\* value?.trim() is not called, and yields undefined, for null and undefined
optionalChainSkips(value) == value = NullArg \/ value = UndefinedArg

\* mutant: the guards without the check of the trimmed text
parsePriceRejectsUntrimmed(priceText) ==
  \/ ~Truthy(priceText)
  \/ priceText.type # "string"

\* the guards of parsePrice (lines 130-137): TRUE when it returns null before
\* extractNumericPrice is called
parsePriceRejects(priceText) ==
  \/ ~Truthy(priceText)
  \/ priceText.type # "string"
  \/ trim(priceText.str) = <<>>

\* lines 139-150, on the trimmed text
parseTrimmed(trimmed) ==
  LET numericValue == extractNumericPrice(trimmed)
  IN IF ~IsPresent(numericValue) \/ ~IsPositive(Get(numericValue)) THEN Absent
     ELSE Some([value |-> Get(numericValue),
                originalText |-> trimmed,
                currency |-> detectCurrency(trimmed),
                isSalePrice |-> detectSalePrice(trimmed),
                context |-> extractContext(trimmed)])

parsePrice(priceText) ==
  IF parsePriceRejects(priceText) THEN Absent ELSE parseTrimmed(trim(priceText.str))

\* parsePrice raises an exception: priceText.trim() of line 134 is reached
\* with a value that is not a string
parsePriceThrows(priceText) ==
  /\ Truthy(priceText)
  /\ ~parsePriceRejects(priceText)
  /\ trimCallThrows(priceText)

(***************************************************************************)
(* parsePrices and validatePriceResult.                                    *)
(***************************************************************************)
ParseError(field, raw) == [field |-> field, raw |-> raw]

\* mutant: a failed current price ends the resolution, the regular price is
\* not reported
parseErrorsAborting(currentPriceText, regularPriceText) ==
  IF Truthy(currentPriceText) /\ ~IsPresent(parsePrice(currentPriceText))
  THEN <<ParseError("current", currentPriceText.str)>>
  ELSE IF Truthy(regularPriceText) /\ ~IsPresent(parsePrice(regularPriceText))
  THEN <<ParseError("regular", regularPriceText.str)>>
  ELSE <<>>

\* lines 167-184: the error list
parseErrors(currentPriceText, regularPriceText) ==
  (IF Truthy(currentPriceText) /\ ~IsPresent(parsePrice(currentPriceText))
   THEN <<ParseError("current", currentPriceText.str)>> ELSE <<>>)
  \o
  (IF Truthy(regularPriceText) /\ ~IsPresent(parsePrice(regularPriceText))
   THEN <<ParseError("regular", regularPriceText.str)>> ELSE <<>>)

\* lines 186-189
discountOf(currentPrice, regularPrice) ==
  IF /\ IsPresent(currentPrice) /\ IsPresent(regularPrice)
     /\ NumLess(Get(currentPrice).value, Get(regularPrice).value)
  THEN Some(RoundedPercent(Get(currentPrice).value, Get(regularPrice).value))
  ELSE Absent

\* mutant: promoText || undefined, without the trim
normalizePromoUntrimmed(promoText) ==
  IF promoText.type = "string" /\ promoText.str # <<>> THEN Some(promoText.str) ELSE Absent

\* promoText?.trim() || undefined
normalizePromo(promoText) ==
  IF promoText.type = "string" /\ trim(promoText.str) # <<>>
  THEN Some(trim(promoText.str)) ELSE Absent

\* parsePrices raises an exception: one of its calls of parsePrice does, or
\* promoText?.trim() of line 195 calls trim on a value that is not a string
parsePricesThrows(currentPriceText, regularPriceText, promoText) ==
  \/ Truthy(currentPriceText) /\ parsePriceThrows(currentPriceText)
  \/ Truthy(regularPriceText) /\ parsePriceThrows(regularPriceText)
  \/ ~optionalChainSkips(promoText) /\ trimCallThrows(promoText)

parsePrices(currentPriceText, regularPriceText, promoText) ==
  LET currentPrice == IF Truthy(currentPriceText) THEN parsePrice(currentPriceText) ELSE Absent
      regularPrice == IF Truthy(regularPriceText) THEN parsePrice(regularPriceText) ELSE Absent
  IN [currentPrice |-> currentPrice,
      regularPrice |-> regularPrice,
      discountPercent |-> discountOf(currentPrice, regularPrice),
      promoText |-> normalizePromo(promoText),
      errors |-> parseErrors(currentPriceText, regularPriceText)]

\* mutant: without the check that the current price is positive
validateWithoutPositiveCheck(res) ==
  IF ~IsPresent(res.currentPrice) THEN FALSE
  ELSE IF /\ IsPresent(res.regularPrice)
          /\ NumLess(Get(res.regularPrice).value, Get(res.currentPrice).value) THEN FALSE
  ELSE IF /\ IsPresent(res.discountPercent)
          /\ (Get(res.discountPercent) < 0 \/ Get(res.discountPercent) > 100) THEN FALSE
  ELSE TRUE

\* mutant: the range check written with '&&' for '||', which nothing satisfies
validateRangeConjoined(res) ==
  IF ~IsPresent(res.currentPrice) THEN FALSE
  ELSE IF NumLeq(Get(res.currentPrice).value, Whole(0)) THEN FALSE
  ELSE IF /\ IsPresent(res.regularPrice)
          /\ NumLess(Get(res.regularPrice).value, Get(res.currentPrice).value) THEN FALSE
  ELSE IF /\ IsPresent(res.discountPercent)
          /\ (Get(res.discountPercent) < 0 /\ Get(res.discountPercent) > 100) THEN FALSE
  ELSE TRUE

validatePriceResult(res) ==
  IF ~IsPresent(res.currentPrice) THEN FALSE
  ELSE IF NumLeq(Get(res.currentPrice).value, Whole(0)) THEN FALSE
  ELSE IF /\ IsPresent(res.regularPrice)
          /\ NumLess(Get(res.regularPrice).value, Get(res.currentPrice).value) THEN FALSE
  ELSE IF /\ IsPresent(res.discountPercent)
          /\ (Get(res.discountPercent) < 0 \/ Get(res.discountPercent) > 100) THEN FALSE
  ELSE TRUE

(***************************************************************************)
(* The page-text fallbacks of the scrapers (ShoppersScraper and            *)
(* PetSmartScraper): regular expressions over the text of the page body.   *)
(***************************************************************************)
\* \d{1,4}(?:\.\d{2})? anchored at position p: the position after it, or 0
AmountEnd(s, p) ==
  LET d == Min(4, DigitRun(s, p))
      q == p + d
  IN IF d = 0 THEN 0
     ELSE IF At(s, q) = "." /\ IsDigit(At(s, q + 1)) /\ IsDigit(At(s, q + 2)) THEN q + 3
     ELSE q

\* (?:was|originally|regular|msrp|list)
QualifiersBefore ==
  {<<"w", "a", "s">>, <<"o", "r", "i", "g", "i", "n", "a", "l", "l", "y">>,
   <<"r", "e", "g", "u", "l", "a", "r">>, <<"m", "s", "r", "p">>, <<"l", "i", "s", "t">>}

\* (?:was|originally|regular|list)
QualifiersAfter == QualifiersBefore \ {<<"m", "s", "r", "p">>}

\* one of the words at position i, letters of either case (flag i): the
\* position after it, or 0; no two of the words start alike
KeywordAt(s, i, w) == \A j \in 1..Len(w) : LowerChar(At(s, i + j - 1)) = w[j]

KeywordEnd(s, i, words) ==
  IF \E w \in words : KeywordAt(s, i, w)
  THEN i + Len(CHOOSE w \in words : KeywordAt(s, i, w))
  ELSE 0

\* /(?:was|originally|regular|msrp|list)\s*:?\s*\$?(\d{1,4}(?:\.\d{2})?)/gi
\* anchored at position i: group 1 as <<[from, to]>>, or <<>>
QualifierThenAmount(s, i) ==
  LET k == KeywordEnd(s, i, QualifiersBefore)
      p1 == SkipSpaces(s, k)
      p2 == IF At(s, p1) = ":" THEN p1 + 1 ELSE p1
      p3 == SkipSpaces(s, p2)
      p4 == IF At(s, p3) = "$" THEN p3 + 1 ELSE p3
  IN IF k = 0 \/ AmountEnd(s, p4) = 0 THEN <<>>
     ELSE <<[from |-> p4, to |-> AmountEnd(s, p4) - 1]>>

\* /\$(\d{1,4}(?:\.\d{2})?)\s*(?:was|originally|regular|list)/gi anchored at
\* position i: group 1 as <<[from, to]>>, or <<>>
AmountThenQualifier(s, i) ==
  LET e == AmountEnd(s, i + 1)
  IN IF /\ At(s, i) = "$"
        /\ e > 0
        /\ KeywordEnd(s, SkipSpaces(s, e), QualifiersAfter) > 0
     THEN <<[from |-> i + 1, to |-> e - 1]>>
     ELSE <<>>

NumContextPatterns == 2

ContextPatternAt(k, s, i) ==
  IF k = 1 THEN QualifierThenAmount(s, i) ELSE AmountThenQualifier(s, i)

\* matches[0][1] of [...pageText.matchAll(pattern)]: group 1 of the leftmost
\* match, or <<>> when matches is empty
FirstContextMatch(k, s) ==
  LET starts == {i \in 1..Len(s) : ContextPatternAt(k, s, i) # <<>>}
  IN IF starts = {} THEN <<>>
     ELSE LET i == CHOOSE i \in starts : \A j \in starts : i <= j
          IN <<Group1(s, ContextPatternAt(k, s, i)[1])>>

SaneMinTenths == 5

SaneMaxDollars == 1000

\* numericValue > 0.50 && numericValue < 1000
InSaneBound(v) == NumLess(<<SaneMinTenths, 1>>, v) /\ NumLess(v, Whole(SaneMaxDollars))

\* the body of the loop over pricePatterns for pattern k: `$${price}` of the
\* first match when its value is in the bound, else <<>>
contextCandidate(k, s) ==
  LET m == FirstContextMatch(k, s)
  IN IF m # <<>> /\ InSaneBound(parseFloat(m[1])) THEN <<<<"$">> \o m[1]>> ELSE <<>>

\* the loop over pricePatterns: the first pattern whose first match is in the
\* bound decides
contextualRegularPrice(pageText) ==
  IF contextCandidate(1, pageText) # <<>> THEN contextCandidate(1, pageText)
  ELSE contextCandidate(2, pageText)

\* the members of a set of positions in ascending order
Ascending(S) ==
  [k \in 1..Cardinality(S) |-> CHOOSE i \in S : Cardinality({j \in S : j < i}) = k - 1]

\* /\$\d{1,4}(?:\.\d{2})?/ anchored at position i: the position after it, or 0
DollarTokenEnd(s, i) == IF At(s, i) = "$" THEN AmountEnd(s, i + 1) ELSE 0

\* pageText.match(/\$\d{1,4}(?:\.\d{2})?/g): the matches in page order.  A
\* match holds one '$', its first character, so no two matches overlap.
dollarTokens(s) ==
  LET starts == Ascending({i \in 1..Len(s) : DollarTokenEnd(s, i) > 0})
  IN [k \in 1..Len(starts) |-> SubSeq(s, starts[k], DollarTokenEnd(s, starts[k]) - 1)]

\* p.replace('$', ''): the first '$' removed
RemoveFirstDollar(t) ==
  IF \E i \in 1..Len(t) : t[i] = "$"
  THEN LET i == CHOOSE i \in 1..Len(t) : t[i] = "$" /\ \A j \in 1..(i - 1) : t[j] # "$"
       IN SubSeq(t, 1, i - 1) \o SubSeq(t, i + 1, Len(t))
  ELSE t

\* allPriceMatches.map(p => parseFloat(p.replace('$', ''))).filter(p => p > 0.50 && p < 1000)
sanePrices(s) ==
  SelectSeq([k \in 1..Len(dollarTokens(s)) |-> parseFloat(RemoveFirstDollar(dollarTokens(s)[k]))],
            InSaneBound)

\* priceFrequency.get(v)
Frequency(prices, v) == Cardinality({k \in 1..Len(prices) : prices[k] = v})

MinCount == 2

BandMinDollars == 1

BandMaxDollars == 200

\* frequentPrices filtered to reasonableProductPrices, as the set of its prices
reasonableProductPrices(prices) ==
  {v \in {prices[k] : k \in 1..Len(prices)} :
     /\ Frequency(prices, v) >= MinCount
     /\ NumLess(Whole(BandMinDollars), v) /\ NumLess(v, Whole(BandMaxDollars))}

\* -1, 0 or 1 as the double x is below, equal to or above the whole number k
DoubleCmpWhole(x, k) ==
  IF x[2] >= 0 THEN BigCmp(BigShl(x[1], x[2]), BigOfInt(k))
  ELSE BigCmp(x[1], BigShl(BigOfInt(k), -x[2]))

MinDiscount == 5

MaxDiscount == 60

\* ((higherPrice - lowerPrice) / higherPrice) * 100 in doubles is >= 5 and <= 60
discountInBand(higherPrice, lowerPrice) ==
  \E h \in {ToDouble(higherPrice)} :
    \E discountPercent \in {DoubleTimes100(DoubleDiv(DoubleSub(h, ToDouble(lowerPrice)), h))} :
      /\ DoubleCmpWhole(discountPercent, MinDiscount) >= 0
      /\ DoubleCmpWhole(discountPercent, MaxDiscount) <= 0

DecimalDigits == <<"0", "1", "2", "3", "4", "5", "6", "7", "8", "9">>

RECURSIVE IntegerText(_)
IntegerText(n) ==
  IF n < 10 THEN <<DecimalDigits[n + 1]>>
  ELSE IntegerText(n \div 10) \o <<DecimalDigits[(n % 10) + 1]>>

\* `$${v.toFixed(2)}` for a value of at most two decimals
DollarFixed2(v) ==
  LET cents == v[1] * Pow10(2 - v[2])
  IN <<"$">> \o IntegerText(cents \div 100)
       \o <<".", DecimalDigits[((cents % 100) \div 10) + 1], DecimalDigits[(cents % 10) + 1]>>

\* the frequency inference of ShoppersScraper (lines 392-443), prices being
\* the sane prices of the page
frequencyRegularPrice(pageText) ==
  LET reasonable == reasonableProductPrices(sanePrices(pageText))
  IN IF Len(dollarTokens(pageText)) >= 2 /\ Cardinality(reasonable) = 2
     THEN LET higherPrice == CHOOSE v \in reasonable : \A w \in reasonable : NumLeq(w, v)
              lowerPrice == CHOOSE v \in reasonable : \A w \in reasonable : NumLeq(v, w)
          IN IF discountInBand(higherPrice, lowerPrice)
             THEN <<DollarFixed2(higherPrice)>> ELSE <<>>
     ELSE <<>>

\* text.match(/\$?\d{1,4}(?:\.\d{2})?/): the leftmost match, or <<>>
StrikeTokenEnd(s, i) ==
  IF At(s, i) = "$" /\ IsDigit(At(s, i + 1)) THEN AmountEnd(s, i + 1) ELSE AmountEnd(s, i)

firstStrikeToken(s) ==
  LET starts == {i \in 1..Len(s) : StrikeTokenEnd(s, i) > 0}
  IN IF starts = {} THEN <<>>
     ELSE LET i == CHOOSE i \in starts : \A j \in starts : i <= j
          IN <<SubSeq(s, i, StrikeTokenEnd(s, i) - 1)>>

\* the body of the loop over strikethroughElements for one element text
strikeCandidate(text) ==
  LET priceMatch == firstStrikeToken(text)
  IN IF /\ Len(text) > 0
        /\ priceMatch # <<>>
        /\ InSaneBound(parseFloat(RemoveFirstDollar(priceMatch[1])))
     THEN <<DollarFixed2(parseFloat(RemoveFirstDollar(priceMatch[1])))>>
     ELSE <<>>

\* the loop over strikethroughElements (lines 446-464): the first element
\* with a price in the bound decides
strikethroughRegularPrice(elements) ==
  LET good == {k \in 1..Len(elements) : strikeCandidate(elements[k]) # <<>>}
  IN IF good = {} THEN <<>>
     ELSE strikeCandidate(elements[CHOOSE k \in good : \A j \in good : k <= j])

\* mutant: the last step that finds a price wins
LastCandidate(steps, candidates) ==
  IF \A k \in DOMAIN candidates : candidates[k] = <<>> THEN <<>>
  ELSE LET k == CHOOSE k \in DOMAIN candidates :
                  candidates[k] # <<>> /\ \A j \in (k + 1)..Len(candidates) : candidates[j] = <<>>
       IN <<steps[k], candidates[k][1]>>

\* the steps of a locator run in order and the first that finds a price
\* returns it: <<step, text>>, or <<>> when none does
FirstCandidate(steps, candidates) ==
  IF \A k \in DOMAIN candidates : candidates[k] = <<>> THEN <<>>
  ELSE LET k == CHOOSE k \in DOMAIN candidates :
                  candidates[k] # <<>> /\ \A j \in 1..(k - 1) : candidates[j] = <<>>
       IN <<steps[k], candidates[k][1]>>

\* ShoppersScraper.extractRegularPriceFromPage: <<step, text>>, or <<>> for null
shoppersRegularPriceFromPage(pageText, elements) ==
  IF Len(pageText) = 0 THEN <<>>
  ELSE CHOOSE r \in {FirstCandidate(<<"context", "frequency", "strikethrough">>, c) :
                       c \in {<<contextualRegularPrice(pageText), frequencyRegularPrice(pageText),
                                strikethroughRegularPrice(elements)>>}} : TRUE

\* prices sorted descending: prices[0] > prices[1] when the highest value
\* occurs once
higherOfPrices(pageText) ==
  LET prices == sanePrices(pageText)
      top == CHOOSE k \in 1..Len(prices) : \A j \in 1..Len(prices) : NumLeq(prices[j], prices[k])
  IN IF /\ Len(dollarTokens(pageText)) >= 2
        /\ Len(prices) >= 2
        /\ Frequency(prices, prices[top]) = 1
     THEN <<DollarFixed2(prices[top])>> ELSE <<>>

\* PetSmartScraper.extractRegularPriceFromPage: <<step, text>>, or <<>> for null
petsmartRegularPriceFromPage(pageText) ==
  IF Len(pageText) = 0 THEN <<>>
  ELSE CHOOSE r \in {FirstCandidate(<<"context", "higher">>, c) :
                       c \in {<<contextualRegularPrice(pageText), higherOfPrices(pageText)>>}} : TRUE

\* /CAD?\s*\$?\d{1,4}(?:\.\d{2})?/ anchored at position i: the position after
\* it, or 0
CadTokenEnd(s, i) ==
  LET p1 == IF At(s, i + 2) = "D" THEN i + 3 ELSE i + 2
      p2 == SkipSpaces(s, p1)
      p3 == IF At(s, p2) = "$" THEN p2 + 1 ELSE p2
  IN IF At(s, i) = "C" /\ At(s, i + 1) = "A" THEN AmountEnd(s, p3) ELSE 0

NumPagePatterns == 2

PageTokenEnd(k, s, i) == IF k = 1 THEN DollarTokenEnd(s, i) ELSE CadTokenEnd(s, i)

\* pageText.match(pattern) for pattern k of extractPriceFromPage, in page
\* order.  A match of the second pattern has its only letters at its start,
\* so no two matches overlap.
pageTokens(k, s) ==
  LET starts == Ascending({i \in 1..Len(s) : PageTokenEnd(k, s, i) > 0})
  IN [j \in 1..Len(starts) |-> SubSeq(s, starts[j], PageTokenEnd(k, s, starts[j]) - 1)]

\* match.replace(/[^$\d.]/g, '')
cleanPrice(match) == SelectSeq(match, LAMBDA c : c = "$" \/ c = "." \/ IsDigit(c))

\* validPrices for pattern k, as the clean price texts in page order
validPrices(k, s) ==
  SelectSeq([j \in 1..Len(pageTokens(k, s)) |-> cleanPrice(pageTokens(k, s)[j])],
            LAMBDA p : InSaneBound(parseFloat(RemoveFirstDollar(p))))

\* mutant: validPrices.sort((a, b) => b.value - a.value)[0], the highest
lowestValidPriceReversed(valid) ==
  LET value(j) == parseFloat(RemoveFirstDollar(valid[j]))
      best == {j \in 1..Len(valid) : \A m \in 1..Len(valid) : NumLeq(value(m), value(j))}
  IN valid[CHOOSE j \in best : \A m \in best : j <= m]

\* validPrices.sort((a, b) => a.value - b.value)[0].price: the sort is
\* stable, so of equal values the first in page order stays first
lowestValidPrice(valid) ==
  LET value(j) == parseFloat(RemoveFirstDollar(valid[j]))
      best == {j \in 1..Len(valid) : \A m \in 1..Len(valid) : NumLeq(value(j), value(m))}
  IN valid[CHOOSE j \in best : \A m \in best : j <= m]

\* extractPriceFromPage (both scrapers): <<text>>, or <<>> for null
extractPriceFromPage(pageText) ==
  IF Len(pageText) = 0 THEN <<>>
  ELSE IF Len(validPrices(1, pageText)) > 0 THEN <<lowestValidPrice(validPrices(1, pageText))>>
  ELSE IF Len(validPrices(2, pageText)) > 0 THEN <<lowestValidPrice(validPrices(2, pageText))>>
  ELSE <<>>

(***************************************************************************)
(* extractBrandFromTitle of the scrapers.                                  *)
(***************************************************************************)
\* commonBrands of ShoppersScraper
ShoppersBrands ==
  <<
   <<"E", "n", "f", "a", "m", "i", "l">>, <<"S", "i", "m", "i", "l", "a", "c">>,
   <<"G", "e", "r", "b", "e", "r">>, <<"N", "e", "s", "t", "l", "e">>,
   <<"H", "u", "g", "g", "i", "e", "s">>, <<"P", "a", "m", "p", "e", "r", "s">>,
   <<"J", "o", "h", "n", "s", "o", "n", "'", "s">>, <<"A", "v", "e", "e", "n", "o">>,
   <<"C", "e", "t", "a", "p", "h", "i", "l">>,
   <<"N", "e", "u", "t", "r", "o", "g", "e", "n", "a">>, <<"L", "'", "O", "r", "e", "a", "l">>,
   <<"M", "a", "y", "b", "e", "l", "l", "i", "n", "e">>,
   <<"C", "o", "v", "e", "r", "G", "i", "r", "l">>, <<"T", "y", "l", "e", "n", "o", "l">>,
   <<"A", "d", "v", "i", "l">>, <<"R", "e", "a", "c", "t", "i", "n", "e">>,
   <<"C", "l", "a", "r", "i", "t", "i", "n">>, <<"B", "e", "n", "a", "d", "r", "y", "l">>,
   <<"P", "e", "p", "t", "o", "-", "B", "i", "s", "m", "o", "l">>, <<"O", "l", "a", "y">>,
   <<"D", "o", "v", "e">>,
   <<"H", "e", "a", "d", " ", "&", " ", "S", "h", "o", "u", "l", "d", "e", "r", "s">>,
   <<"P", "a", "n", "t", "e", "n", "e">>,
   <<"H", "e", "r", "b", "a", "l", " ", "E", "s", "s", "e", "n", "c", "e", "s">>
  >>

\* commonBrands of PetSmartScraper
PetSmartBrands ==
  <<
   <<"A", "u", "t", "h", "o", "r", "i", "t", "y">>, <<"H", "i", "l", "l", "'", "s">>,
   <<"H", "i", "l", "l", "s">>, <<"R", "o", "y", "a", "l", " ", "C", "a", "n", "i", "n">>,
   <<"P", "u", "r", "i", "n", "a">>,
   <<"B", "l", "u", "e", " ", "B", "u", "f", "f", "a", "l", "o">>, <<"I", "a", "m", "s">>,
   <<"P", "e", "d", "i", "g", "r", "e", "e">>, <<"W", "h", "i", "s", "k", "a", "s">>,
   <<"F", "r", "i", "s", "k", "i", "e", "s">>, <<"W", "e", "l", "l", "n", "e", "s", "s">>,
   <<"O", "r", "i", "j", "e", "n">>, <<"A", "c", "a", "n", "a">>,
   <<"S", "c", "i", "e", "n", "c", "e", " ", "D", "i", "e", "t">>,
   <<"P", "r", "o", " ", "P", "l", "a", "n">>, <<"O", "N", "E">>,
   <<"F", "a", "n", "c", "y", " ", "F", "e", "a", "s", "t">>, <<"S", "h", "e", "b", "a">>,
   <<"N", "u", "t", "r", "o">>, <<"E", "u", "k", "a", "n", "u", "b", "a">>,
   <<"C", "e", "s", "a", "r">>, <<"G", "r", "e", "e", "n", "i", "e", "s">>,
   <<"D", "e", "n", "t", "a", "s", "t", "i", "x">>
  >>

commonBrands(scraper) == IF scraper = "shoppers" THEN ShoppersBrands ELSE PetSmartBrands

\* the loop over commonBrands: the first brand, in list order, that the
\* lower-cased title includes lower-cased; <<>> if none
knownBrand(brands, title) ==
  LET hits == {k \in 1..Len(brands) : includes(toLowerCase(title), toLowerCase(brands[k]))}
  IN IF hits = {} THEN <<>> ELSE <<brands[CHOOSE k \in hits : \A j \in hits : k <= j]>>

\* title.split(' ')[0]
FirstWordOf(title) ==
  IF \E i \in 1..Len(title) : title[i] = " "
  THEN SubSeq(title, 1, (CHOOSE i \in 1..Len(title) :
                           title[i] = " " /\ \A j \in 1..(i - 1) : title[j] # " ") - 1)
  ELSE title

RegisteredSign == "u00AE"

TradeMarkSign == "u2122"

CopyrightSign == "u00A9"

\* .replace(/[(R)(TM)(C)]/g, '')
RemoveGlyphs(w) ==
  SelectSeq(w, LAMBDA c : c \notin {RegisteredSign, TradeMarkSign, CopyrightSign})

ItemWord == <<"i", "t", "e", "m">>

\* .replace(/Item/gi, ''): one pass from position i, a scan resuming after
\* each occurrence removed
RECURSIVE RemoveItemFrom(_, _)
RemoveItemFrom(w, i) ==
  IF i > Len(w) THEN <<>>
  ELSE IF OccursAt(toLowerCase(w), ItemWord, i) THEN RemoveItemFrom(w, i + Len(ItemWord))
  ELSE <<w[i]>> \o RemoveItemFrom(w, i + 1)

\* .replace(/#.*/, ''): the first '#' and what follows it on its line
RemoveHashSuffix(w) ==
  IF \E i \in 1..Len(w) : w[i] = "#"
  THEN LET i == CHOOSE i \in 1..Len(w) : w[i] = "#" /\ \A j \in 1..(i - 1) : w[j] # "#"
           ends == {j \in i..Len(w) : w[j] \in LineTerminators}
           e == IF ends = {} THEN Len(w) + 1 ELSE CHOOSE j \in ends : \A m \in ends : j <= m
       IN SubSeq(w, 1, i - 1) \o SubSeq(w, e, Len(w))
  ELSE w

MinBrandLength == 3

\* mutant: the first word is accepted whatever its first character
firstWordBrandAnyCase(title) ==
  LET firstWord == trim(RemoveHashSuffix(RemoveItemFrom(RemoveGlyphs(FirstWordOf(title)), 1)))
  IN IF Len(firstWord) >= MinBrandLength THEN <<firstWord>> ELSE <<>>

\* the first word as brand: firstWord && firstWord.length > 2 && /^[A-Z]/.test(firstWord)
firstWordBrand(title) ==
  LET firstWord == trim(RemoveHashSuffix(RemoveItemFrom(RemoveGlyphs(FirstWordOf(title)), 1)))
  IN IF Len(firstWord) >= MinBrandLength /\ firstWord[1] \in UpperLetters
     THEN <<firstWord>> ELSE <<>>

\* extractBrandFromTitle: <<brand>>, or <<>> for undefined
extractBrandFromTitle(scraper, title) ==
  IF knownBrand(commonBrands(scraper), title) # <<>>
  THEN knownBrand(commonBrands(scraper), title)
  ELSE firstWordBrand(title)

(***************************************************************************)
(* ShoppersScraper.extractSizeFromTitle: eight patterns with flag i, tried *)
(* in list order on the title, and four replacements on the match.         *)
(* A pattern anchored at position i gives the position after group 1, or 0.*)
(***************************************************************************)
\* \d+(?:\.\d+)? anchored at position i: the position after it, or 0
NumberEnd(s, i) ==
  IF DigitRun(s, i) = 0 THEN 0 ELSE AfterFraction(s, i + DigitRun(s, i))

\* (?:u1|u2|...)\b at position p: the alternatives are tried in list order and
\* the first one with a \b after it ends the match
UnitEnd(s, p, units) ==
  LET fits == {j \in 1..Len(units) :
                 KeywordAt(s, p, units[j]) /\ WordBoundary(s, p + Len(units[j]))}
  IN IF p = 0 \/ fits = {} THEN 0
     ELSE p + Len(units[CHOOSE j \in fits : \A k \in fits : j <= k])

\* (\d+(?:\.\d+)?\s*(?:u1|u2|...))\b
NumberThenUnit(s, i, units) ==
  IF NumberEnd(s, i) = 0 THEN 0 ELSE UnitEnd(s, SkipSpaces(s, NumberEnd(s, i)), units)

\* (?:ml|mL|L|l) under flag i
VolumeUnits == <<<<"m", "l">>, <<"m", "l">>, <<"l">>, <<"l">>>>

\* (?:g|kg|oz|lb|lbs)
WeightUnits == <<<<"g">>, <<"k", "g">>, <<"o", "z">>, <<"l", "b">>, <<"l", "b", "s">>>>

\* (?:count|ct|pack)
CountUnits == <<<<"c", "o", "u", "n", "t">>, <<"c", "t">>, <<"p", "a", "c", "k">>>>

\* (?:ml|mL|oz) under flag i
MultiPackUnits == <<<<"m", "l">>, <<"m", "l">>, <<"o", "z">>>>

\* (\d+\s*(?:count|ct|pack))\b
CountPatternEnd(s, i) ==
  IF DigitRun(s, i) = 0 THEN 0 ELSE UnitEnd(s, SkipSpaces(s, i + DigitRun(s, i)), CountUnits)

\* (Size\s+\d+(?:-\d+)?)\b: the range is given up when no \b follows it
SizeNumberPatternEnd(s, i) ==
  LET q == SkipSpaces(s, i + 4)
      r == q + DigitRun(s, q)
      r2 == r + 1 + DigitRun(s, r + 1)
  IN IF ~KeywordAt(s, i, <<"s", "i", "z", "e">>) \/ q = i + 4 \/ r = q THEN 0
     ELSE IF At(s, r) = "-" /\ IsDigit(At(s, r + 1)) /\ WordBoundary(s, r2) THEN r2
     ELSE IF WordBoundary(s, r) THEN r
     ELSE 0

\* fl\s*oz | fluid\s*ounce at position p: the position after it, or 0
FluidUnitEnd(s, p) ==
  IF KeywordAt(s, p, <<"f", "l">>) /\ KeywordAt(s, SkipSpaces(s, p + 2), <<"o", "z">>)
  THEN SkipSpaces(s, p + 2) + 2
  ELSE IF KeywordAt(s, p, <<"f", "l", "u", "i", "d">>) /\ KeywordAt(s, SkipSpaces(s, p + 5), <<"o", "u", "n", "c", "e">>)
  THEN SkipSpaces(s, p + 5) + 5
  ELSE 0

\* (\d+(?:\.\d+)?\s*(?:fl\s*oz|fluid\s*ounce)s?)\b
FluidOuncePatternEnd(s, i) ==
  LET u == IF NumberEnd(s, i) = 0 THEN 0 ELSE FluidUnitEnd(s, SkipSpaces(s, NumberEnd(s, i)))
  IN IF u = 0 THEN 0
     ELSE IF KeywordAt(s, u, <<"s">>) /\ WordBoundary(s, u + 1) THEN u + 1
     ELSE IF WordBoundary(s, u) THEN u
     ELSE 0

\* (\d+(?:\.\d+)?x\d+(?:\.\d+)?\s*(?:ml|mL|oz))\b
MultiPackPatternEnd(s, i) ==
  LET e == NumberEnd(s, i)
  IN IF e = 0 \/ ~KeywordAt(s, e, <<"x">>) THEN 0 ELSE NumberThenUnit(s, e + 1, MultiPackUnits)

\* (Ready\s+to\s+Feed)
ReadyToFeedPatternEnd(s, i) ==
  LET p == SkipSpaces(s, i + 5)
      q == SkipSpaces(s, p + 2)
  IN IF /\ KeywordAt(s, i, <<"r", "e", "a", "d", "y">>) /\ p > i + 5
        /\ KeywordAt(s, p, <<"t", "o">>) /\ q > p + 2
        /\ KeywordAt(s, q, <<"f", "e", "e", "d">>)
     THEN q + 4
     ELSE 0

\* (Powder)
PowderPatternEnd(s, i) == IF KeywordAt(s, i, <<"p", "o", "w", "d", "e", "r">>) THEN i + 6 ELSE 0

NumSizePatterns == 8

\* sizePatterns[k - 1] anchored at position i
SizePatternEnd(k, s, i) ==
  CASE k = 1 -> NumberThenUnit(s, i, VolumeUnits)
    [] k = 2 -> NumberThenUnit(s, i, WeightUnits)
    [] k = 3 -> CountPatternEnd(s, i)
    [] k = 4 -> SizeNumberPatternEnd(s, i)
    [] k = 5 -> FluidOuncePatternEnd(s, i)
    [] k = 6 -> MultiPackPatternEnd(s, i)
    [] k = 7 -> ReadyToFeedPatternEnd(s, i)
    [] k = 8 -> PowderPatternEnd(s, i)

\* title.match(pattern): match[1] of the leftmost match, <<text>>, or <<>>;
\* ends[i] is where the pattern anchored at i stops (0: no match at i)
sizeMatch(k, s) ==
  Only({IF \A i \in 1..Len(s) : ends[i] = 0 THEN <<>>
        ELSE Only({<<SubSeq(s, i0, ends[i0] - 1)>> :
                     i0 \in {CHOOSE i \in 1..Len(s) :
                               ends[i] > 0 /\ \A j \in 1..(i - 1) : ends[j] = 0}}) :
          ends \in {<<>> \o [i \in 1..Len(s) |-> SizePatternEnd(k, s, i)]}})

\* size.replace(/\bword\b/i, replacement): the leftmost occurrence only
replaceWord(s, word, replacement) ==
  LET at == {i \in 1..Len(s) : /\ KeywordAt(s, i, word)
                               /\ WordBoundary(s, i)
                               /\ WordBoundary(s, i + Len(word))}
      i0 == CHOOSE i \in at : \A j \in at : i <= j
  IN IF at = {} THEN s
     ELSE SubSeq(s, 1, i0 - 1) \o replacement \o SubSeq(s, i0 + Len(word), Len(s))

\* the four replacements in the order of the code: ml, l, g, kg
UnitReplacements ==
  << <<<<"m", "l">>, <<"m", "L">>>>, <<<<"l">>, <<"L">>>>,
     <<<<"g">>, <<"g">>>>, <<<<"k", "g">>, <<"k", "g">>>> >>

\* the first n replacements applied to size, one after the other
RECURSIVE replaceUnits(_, _)
replaceUnits(size, n) ==
  IF n = 0 THEN size
  ELSE Only({replaceWord(before, UnitReplacements[n][1], UnitReplacements[n][2]) :
               before \in {replaceUnits(size, n - 1)}})

\* let size = match[1].trim() and the four replacements
standardiseUnits(matched) == replaceUnits(trim(matched), Len(UnitReplacements))

\* the loop over sizePatterns: the first pattern with a match returns
extractSizeFromTitle(t) ==
  Only({IF \A k \in 1..NumSizePatterns : matches[k] = <<>> THEN <<>>
        ELSE Only({<<standardiseUnits(matches[k0][1])>> :
                     k0 \in {CHOOSE k \in 1..NumSizePatterns :
                               matches[k] # <<>> /\ \A j \in 1..(k - 1) : matches[j] = <<>>}}) :
          matches \in {<<>> \o [k \in 1..NumSizePatterns |-> sizeMatch(k, t)]}})

(***************************************************************************)
(* DiscordAlert (src/alerts/discord.ts): the filters of sendDealsAlert,    *)
(* the deduplication cache and the batches.  A product is                  *)
(* [retailer, product_url, current_price, percent_off], percent_off        *)
(* being <<>> when undefined.                                              *)
(***************************************************************************)
\* product.percent_off !== undefined && product.percent_off >= minDiscountPercent
qualifies(p, minPercent) == p.percent_off # <<>> /\ p.percent_off[1] >= minPercent

\* `${deal.retailer}-${deal.product_url}-${deal.current_price}`
getDuplicationKey(deal) == <<deal.retailer, deal.product_url, deal.current_price>>

\* mutant: no deal is a duplicate
isDuplicateNever(deal, cache) == FALSE

\* this.deduplicationCache.has(key)
isDuplicate(deal, cache) == getDuplicationKey(deal) \in cache

\* Array.prototype.filter
RECURSIVE SelectDeals(_, _, _, _)
SelectDeals(deals, minPercent, cache, i) ==
  IF i > Len(deals) THEN <<>>
  ELSE IF qualifies(deals[i], minPercent) /\ ~isDuplicate(deals[i], cache)
       THEN <<deals[i]>> \o SelectDeals(deals, minPercent, cache, i + 1)
       ELSE SelectDeals(deals, minPercent, cache, i + 1)

\* products.filter(qualifying) with no cache, then .filter(deal => !isDuplicate(deal))
qualifyingDeals(deals, minPercent) == SelectDeals(deals, minPercent, {}, 1)

newDeals(deals, minPercent, cache) == SelectDeals(deals, minPercent, cache, 1)

\* max 10 embeds per message
BatchSize == 10

\* batchDeals(deals, batchSize)
batchDeals(deals, batchSize) ==
  [b \in 1..((Len(deals) + batchSize - 1) \div batchSize) |->
     SubSeq(deals, (b - 1) * batchSize + 1, Min(b * batchSize, Len(deals)))]

\* the keys of a list of deals
KeysOf(deals) == {getDuplicationKey(deals[i]) : i \in 1..Len(deals)}

\* markAsSent of every new deal: the timers set, each due
\* deduplicationHours * 60 * 60 * 1000 ms after now (time is counted in hours)
removalTimers(deals, at, hours) == {[key |-> k, due |-> at + hours] : k \in KeysOf(deals)}

\* navigateToUrl(url, maxRetries = 3)
DefaultMaxRetries == 3

\* const waitTime = attempt * 1000
waitTime(n) == n * 1000

\* constructor(webhookUrl, deduplicationHours = 24)
DefaultDeduplicationHours == 24

\* sendDealsAlert(products, minDiscountPercent = 20)
DefaultMinDiscountPercent == 20

\* BaseScraper.safeTextContent on the text of the element found, <<>> when
\* there is no element: text?.trim() || null
safeTextContent(elementText) ==
  IF elementText # <<>> /\ trim(elementText[1]) # <<>> THEN <<trim(elementText[1])>> ELSE <<>>

\* a string or null as an argument of parsePrices
ArgOf(text) == IF text = <<>> THEN NullArg ELSE Str(text[1])

(***************************************************************************)
(* Inputs.                                                                 *)
(***************************************************************************)
RECURSIVE SeqsUpTo(_, _)
SeqsUpTo(S, n) ==
  IF n = 0 THEN {<<>>}
  ELSE LET shorter == SeqsUpTo(S, n - 1)
       IN shorter \cup {Append(s, c) : s \in shorter, c \in S}

\* every text of at most MaxLen characters over a small alphabet
Alphabet == {"$", "0", "1", "5", ".", ",", "-", " ", "a"}

GeneralTexts == SeqsUpTo(Alphabet, MaxLen)

\* '$', a digit run, at most one three-digit group, an optional two-digit fraction
LeadDigits == {"0", "1"}

GroupSuffixes == {<<>>, <<",", "0", "0", "0">>, <<",", "9", "9", "9">>}

FractionSuffixes == {<<>>, <<".", "0", "0">>, <<".", "5", "0">>, <<".", "9", "9">>}

DollarAmountTexts ==
  {<<"$">> \o lead \o g \o f :
     lead \in SeqsUpTo(LeadDigits, MaxLead) \ {<<>>}, g \in GroupSuffixes, f \in FractionSuffixes}

\* 'Save $A - Now $B'
SaveAmounts == {<<"5">>, <<"5", ".", "9", "9">>, <<"1", "5">>, <<"1", "9", ".", "9", "9">>, <<"4", "9">>, <<"5", "0">>, <<"6", "0">>, <<"0", ".", "5", "0">>, <<"1", ",", "2", "9", "9", ".", "9", "9">>}

SaveNowText(a, b) ==
  <<"S", "a", "v", "e", " ", "$">> \o a \o <<" ", "-", " ", "N", "o", "w", " ", "$">> \o b

SaveNowTexts == {SaveNowText(a, b) : a \in SaveAmounts, b \in SaveAmounts}

\* strings of the test suite and a few more
ExampleTexts ==
  { <<"$", "2", "9", ".", "9", "9">>,
    <<"3", "4", ".", "9", "9">>,
    <<"$", "1", ",", "2", "9", "9", ".", "9", "9">>,
    <<"$", "4", "5">>,
    <<"$", "9", "9", "9", ",", "9", "9", "9", ".", "9", "9">>,
    <<"$", "1", "2", "9", "9", ".", "9", "9">>,
    <<"$", "2", "9", ".", "9", "9", "9", "9">>,
    <<"$", "1", ".", ".", "9", "9">>,
    <<" ", " ", "$", " ", " ", "2", "9", ".", "9", "9", " ", " ">>,
    <<"S", "a", "l", "e", ":", " ", "$", "2", "4", ".", "9", "9">>,
    <<"S", "a", "v", "e", " ", "$", "5", " ", "-", " ", "N", "o", "w", " ", "$", "1", "9", ".", "9", "9">>,
    <<"S", "a", "v", "e", " ", "$", "1", "5", " ", "-", " ", "N", "o", "w", " ", "$", "3", "4", ".", "9", "9">>,
    <<"$", "1", "2", ".", "9", "9", " ", "e", "a", "c", "h">>,
    <<"F", "r", "o", "m", " ", "$", "2", "9", ".", "9", "9">>,
    <<"$", "8", ".", "9", "9", " ", "p", "e", "r", " ", "k", "g">>,
    <<"$", "1", "9", ".", "9", "9", " ", "-", " ", "$", "2", "9", ".", "9", "9">>,
    <<"W", "a", "s", " ", "$", "4", "9", ".", "9", "9", ",", " ", "N", "o", "w", " ", "$", "3", "4", ".", "9", "9">>,
    <<"\t">>,
    <<" ", "\n">>,
    <<"F", "r", "e", "e", " ", "s", "h", "i", "p", "p", "i", "n", "g">>,
    <<"$", "0", ".", "0", "0">>,
    <<"$", "-", "5", ".", "9", "9">>,
    <<"-", "$", "5", ".", "9", "9">>,
    <<"-", "5", ".", "9", "9">>,
    <<"$", "0", ".", "0", "0", " ", "2", ".", "5", "0">>,
    <<"$", "5", " ", "$", "6", " ", "$", "-", "1">>,
    <<"S", "a", "v", "e", " ", "$", "5", " ", "o", "n", " ", "2", " ", "i", "t", "e", "m", "s">>,
    <<"s", "a", "v", "e", " ", "$", "5">>,
    <<"$", "1", "2", "9", "9", ".", "9", "9", " ", "-", " ", "$", "1", "5", "0", "0", ".", "0", "0">> }

\* price texts with a qualifier phrase next to the price or elsewhere
ContextTexts ==
  {<<"S", "t", "a", "r", "t", "i", "n", "g", " ", "a", "t", " ", "$", "5", ".", "9", "9">>, <<"u", "p", " ", "t", "o", " ", "$", "5", "0">>, <<"$", "8", ".", "9", "9", " ", "p", "e", "r", " ", "k", "g", " ", "e", "a", "c", "h">>, <<"$", "3", ".", "9", "9", " ", "P", "e", "r", " ", " ", "l", "b">>,
   <<"U", "p", " ", "t", "o", " ", "2", "0", "%", " ", "o", "f", "f", ",", " ", "n", "o", "w", " ", "$", "1", "5", ".", "9", "9">>, <<"E", "a", "c", "h", " ", "s", "o", "l", "d", " ", "s", "e", "p", "a", "r", "a", "t", "e", "l", "y", " ", "$", "4", ".", "9", "9">>,
   <<"f", "r", "e", "s", "h", " ", "f", "r", "o", "m", " ", "t", "h", "e", " ", "d", "e", "l", "i", " ", "$", "5", ".", "0", "0">>, <<"$", "2", ".", "5", "0", " ", "u", "p", "f", "r", "o", "n", "t">>, <<"$", "7", ".", "0", "0", " ", "p", "e", "r">>, <<"1", "2", ".", "9", "9", " ", "e", "a", "c", "h">>}

\* the arguments of sendDealsAlert
DealA == [retailer |-> "petsmart", product_url |-> 1, current_price |-> 2499, percent_off |-> <<29>>]

DealRepriced == [DealA EXCEPT !.current_price = 1999, !.percent_off = <<43>>]

DealOtherRetailer == [DealA EXCEPT !.retailer = "shoppers"]

BelowThreshold == [retailer |-> "petsmart", product_url |-> 2, current_price |-> 2999, percent_off |-> <<15>>]

NoDiscount == [retailer |-> "petsmart", product_url |-> 3, current_price |-> 2999, percent_off |-> <<>>]

\* more deals than one message holds
ManyDeals == [i \in 1..(BatchSize + 1) |-> [DealA EXCEPT !.product_url = 10 + i]]

ProductLists ==
  {<<DealA>>, <<DealA, BelowThreshold>>, <<BelowThreshold, NoDiscount>>, <<DealRepriced>>,
   <<DealOtherRetailer, DealA>>, <<DealA, DealA>>, ManyDeals, <<>>}

\* minDiscountPercent: the default and a stricter one
Thresholds == {20, 30}

NonStringArgs == {NullArg, UndefinedArg, NumberArg(0), NumberArg(123), ObjectArg}

ParsePriceArgs ==
  {Str(s) : s \in GeneralTexts \cup DollarAmountTexts \cup SaveNowTexts \cup ExampleTexts
                  \cup ContextTexts}
    \cup NonStringArgs

\* '$d.cc' for an amount in cents
DigitChar == [d \in 0..9 |-> CHOOSE c \in Digits : DigitVal[c] = d]

RECURSIVE NatText(_)
NatText(n) == IF n < 10 THEN <<DigitChar[n]>> ELSE NatText(n \div 10) \o <<DigitChar[n % 10]>>

DollarText(cents) ==
  <<"$">> \o NatText(cents \div 100) \o <<".", DigitChar[(cents % 100) \div 10], DigitChar[cents % 10]>>

PricePairArgs ==
  {Str(DollarText(c)) : c \in 1..MaxCents}
    \cup {Str(s) : s \in {<<>>, <<"$", "0", ".", "0", "0">>, <<"i", "n", "v", "a", "l", "i", "d">>,
                          <<"$", "2", "4", ".", "9", "9">>, <<"$", "3", "4", ".", "9", "9">>,
                          <<"$", "0", ".", "1", "7">>, <<"$", "0", ".", "4", "0">>,
                          <<" ">>,
                          <<"S", "a", "l", "e", ":", " ", "$", "2", "4", ".", "9", "9">>}}
    \cup {NullArg, UndefinedArg}

PromoArgs ==
  {NullArg, UndefinedArg, Str(<<>>), Str(<<" ", " ">>),
   Str(<<" ", "S", "a", "v", "e", " ", "3", "0", "%", "!", " ">>)}

\* hand-built results for validatePriceResult, as the tests build them
CandidateValues == {-1, 0, 1, 2, 3}

CandidatePercents == {-1, 0, 33, 50, 67, 100, 101, 150}

PriceOf(v) ==
  [value |-> Whole(v), originalText |-> <<>>, currency |-> "undefined",
   isSalePrice |-> FALSE, context |-> Absent]

CandidateResults ==
  [currentPrice : {Absent} \cup {Some(PriceOf(v)) : v \in CandidateValues},
   regularPrice : {Absent} \cup {Some(PriceOf(v)) : v \in CandidateValues},
   discountPercent : {Absent} \cup {Some(d) : d \in CandidatePercents},
   promoText : {Absent},
   errors : {<<>>}]

EmptyResult ==
  [currentPrice |-> Absent, regularPrice |-> Absent, discountPercent |-> Absent,
   promoText |-> Absent, errors |-> <<>>]

\* page texts for the regular-price fallback: a phrase, then each price token
\* from 0 to MaxCopies times
RECURSIVE Repeat(_, _)
Repeat(t, n) == IF n = 0 THEN <<>> ELSE t \o <<" ">> \o Repeat(t, n - 1)

PagePriceTokens ==
  <<<<"$", "1", ".", "3", "3">>, <<"$", "1", ".", "4", "0">>, <<"$", "7", "1", ".", "9", "9">>, <<"$", "8", "9", ".", "9", "9">>>>

ContextPhrases ==
  {<<>>,
   <<"w", "a", "s", " ", "$", "0", ".", "2", "5", " ", "w", "a", "s", " ", "$", "5", ".", "0", "0", " ">>,
   <<"W", "a", "s", ":", " ", "$", "5", ".", "0", "0", " ">>,
   <<"$", "6", ".", "0", "0", " ", "r", "e", "g", "u", "l", "a", "r", " ", "$", "7", ".", "0", "0", " ", "w", "a", "s", " ">>,
   <<"l", "i", "s", "t", " ", "1", "2", "3", "4", " ">>,
   <<"$", "2", "5", "0", ".", "0", "0", " ", "$", "2", "5", "0", ".", "0", "0", " ">>}

LocatorPages ==
  {phrase \o Repeat(PagePriceTokens[1], c[1]) \o Repeat(PagePriceTokens[2], c[2])
          \o Repeat(PagePriceTokens[3], c[3]) \o Repeat(PagePriceTokens[4], c[4]) :
     phrase \in ContextPhrases, c \in [1..4 -> 0..MaxCopies]}

StrikethroughLists ==
  {<<>>,
   <<<<"$", "9", ".", "9", "9">>>>,
   <<<<"n", "/", "a">>, <<"w", "a", "s", " ", "1", "2", " ", "n", "o", "w", " ", "9">>>>}

\* page texts for the current-price fallback: up to MaxPageTokens tokens
CurrencyTokens ==
  {<<"$", "5", ".", "0", "0", " ">>,
   <<"$", "7", " ">>,
   <<"$", "0", ".", "2", "5", " ">>,
   <<"C", "A", "D", " ", "3", ".", "0", "0", " ">>,
   <<"C", "A", "D", " ", "$", "4", " ">>,
   <<"$", "1", "2", "3", "4", " ">>}

RECURSIVE TokenPages(_)
TokenPages(n) ==
  IF n = 0 THEN {<<>>}
  ELSE LET shorter == TokenPages(n - 1)
       IN shorter \cup {p \o t : p \in shorter, t \in CurrencyTokens}

CurrencyPages == TokenPages(MaxPageTokens)

\* the texts of the elements the selectors of scrapeSingleProduct find, <<>>
\* for no element
CurrentElementTexts == {<<>>, <<<<" ", " ">>>>, <<<<" ", "$", "5", ".", "0", "0", " ">>>>}

RegularElementTexts == {<<>>, <<<<"$", "6", ".", "0", "0">>>>}

PromoElementTexts == {<<>>, <<<<" ", "S", "a", "v", "e", " ", "3", "0", "%", "!", " ">>>>}

\* the texts of the regular-price element of a product card, <<>> for no element
CardRegularTexts == RegularElementTexts \cup {<<<<"$", "4", ".", "0", "0">>>>}

\* the text of the price container of a product page with the text of its
\* strikethrough element, <<>> for no such element
PriceContainers ==
  {<<<<"$", "9", ".", "9", "9">>, <<>>>>,
   <<<<"$", "9", ".", "9", "9", "$", "1", "2", ".", "9", "9">>, <<<<"$", "1", "2", ".", "9", "9">>>>>>,
   <<<<"$", "1", "2", ".", "9", "9", "$", "9", ".", "9", "9">>, <<<<"$", "9", ".", "9", "9">>>>>>,
   <<<<"$", "5", ".", "0", "0", "$", "5", ".", "0", "0">>, <<<<"$", "5", ".", "0", "0">>>>>>,
   <<<<"$", "7", ".", "5", "0", " ", "$", "1", "0", ".", "0", "0">>, <<<<"$", "1", "0", ".", "0", "0">>>>>>,
   <<<<>>, <<>>>>,
   <<<<"O", "u", "t", " ", "o", "f", " ", "s", "t", "o", "c", "k">>, <<>>>>,
   <<<<"$", "0", " ", "$", "4", ".", "0", "0">>, <<<<"$", "4", ".", "0", "0">>>>>>}

\* what the operator types at the prompts for the current and the regular
\* price, trimmed; <<>> is the Enter key alone
CurrentAnswers == {<<"1", "2", ".", "9", "9">>, <<"9", ".", "9", "9">>, <<>>, <<"s", "k", "i", "p">>, <<"$", "1", "5">>, <<"n", "/", "a">>}

RegularAnswers == {<<>>, <<"1", "2", ".", "9", "9">>, <<"9", ".", "9", "9">>, <<"2", "0">>, <<"n", "/", "a">>}

ScrapePages ==
  {<<>>,
   <<"$", "8", "9", ".", "9", "9", " ", "$", "7", "1", ".", "9", "9", " ", "$", "8", "9", ".", "9", "9", " ", "$", "7", "1", ".", "9", "9">>,
   <<"w", "a", "s", " ", "$", "8", ".", "0", "0", " ", "n", "o", "w", " ", "$", "5", ".", "0", "0">>}

\* the body texts of product pages on which no selector finds an element
BarePages ==
  {<<"l", "i", "s", "t", " ", "2", " ", "i", "t", "e", "m", "s", " ", "$", "5", ".", "0", "0">>,
   <<"n", "o", "w", " ", "$", "7", ".", "0", "0">>}

NoDom ==
  [currentPrice |-> <<<<>>, <<>>>>, regularPrice |-> <<<<>>, <<>>>>, promo |-> <<<<>>, <<>>>>,
   strikethrough |-> <<>>]

Scrapers == {"shoppers", "petsmart"}

\* product titles: a first word and the rest
TitleFirstWords ==
  {<<"E", "n", "f", "a", "m", "i", "l">>,
   <<"e", "n", "f", "a", "m", "i", "l">>,
   <<"A", "c", "m", "e">>,
   <<"a", "c", "m", "e">>,
   <<"A", "b">>,
   <<"I", "t", "e", "m", "#", "1", "2", "3">>,
   <<"A", "c", "m", "e", "I", "t", "e", "m">>,
   <<"A", "c", "m", "e", RegisteredSign>>,
   <<"I", "t", "e", "m", "A", "c", "m", "e", "#", "9">>,
   <<"#", "A", "c", "m", "e">>,
   <<>>,
   <<"Z", "e", "d", "#", "1">>}

TitleRests ==
  {<<>>,
   <<" ", "B", "a", "b", "y", " ", "F", "o", "r", "m", "u", "l", "a">>,
   <<" ", "b", "y", " ", "S", "i", "m", "i", "l", "a", "c">>,
   <<" ", "b", "o", "n", "e", " ", "t", "r", "e", "a", "t", "s">>}

ExampleTitle ==
  <<"E", "n", "f", "a", "m", "i", "l", " ", "N", "e", "u", "r", "o", "P", "r", "o", " ", "B", "a", "b", "y", " ", "F", "o", "r", "m", "u", "l", "a", " ", "R", "e", "a", "d", "y", " ", "t", "o", " ", "F", "e", "e", "d">>

Titles == {w \o r : w \in TitleFirstWords, r \in TitleRests} \cup {ExampleTitle}

\* titles for extractSizeFromTitle: a product name and a size phrase
SizeLeads == {<<>>, <<"A", "c", "m", "e", " ">>, <<"B", "a", "b", "y", " ", "P", "o", "w", "d", "e", "r", " ">>}

SizePhrases ==
  {<<>>, <<"5", "0", "0", "m", "l">>, <<"5", "0", "0", " ", "M", "L">>, <<"5", "0", "0", " ", "m", "l">>, <<"5", "0", "0", "M", "L", " ", "b", "o", "t", "t", "l", "e">>, <<"1", ".", "5", " ", "L">>, <<"2", "l">>, <<"2", " ", "l", " ", "j", "u", "g">>,
   <<"7", "k", "g">>, <<"7", " ", "K", "G">>, <<"5", "5", "0", " ", "g">>, <<"1", "2", " ", "l", "b", "s">>, <<"1", "2", " ", "o", "z", " ", "c", "a", "n">>, <<"8", "4", " ", "c", "o", "u", "n", "t">>, <<"2", "4", " ", "P", "a", "c", "k">>, <<"1", ".", "5", " ", "c", "t">>,
   <<"S", "i", "z", "e", " ", "4">>, <<"S", "i", "z", "e", " ", "2", "-", "3">>, <<"S", "i", "z", "e", " ", "2", "-", "3", "x">>, <<"s", "i", "z", "e", " ", "5", " ", "8", "4", " ", "c", "t">>, <<"8", " ", "f", "l", " ", "o", "z">>, <<"8", " ", "f", "l", "u", "i", "d", " ", "o", "u", "n", "c", "e", "s">>,
   <<"6", "x", "2", "4", "0", "m", "l">>, <<"6", "x", "8", " ", "o", "z">>, <<"R", "e", "a", "d", "y", " ", "t", "o", " ", "F", "e", "e", "d">>, <<"r", "e", "a", "d", "y", " ", " ", "t", "o", " ", "f", "e", "e", "d", " ", "2", "3", "7", " ", "m", "L">>, <<"P", "o", "w", "d", "e", "r">>,
   <<"L", "a", "r", "g", "e">>, <<"5", "0", "0", "m", "l", "x">>, <<"S", "t", "a", "g", "e", " ", "2">>}

SizeTitles == {l \o p : l \in SizeLeads, p \in SizePhrases}

(***************************************************************************)
(* State: one call of an exported function, its arguments, its position    *)
(* and its results.                                                        *)
(***************************************************************************)
VARIABLES
  fn,                \* the exported function called
  pc,                \* "call", "extract" (inside parsePrice), "done", "validated"
  priceText,         \* argument of parsePrice
  trimmed,           \* local of parsePrice
  parsed,            \* return value of parsePrice
  currentPriceText,  \* arguments of parsePrices
  regularPriceText,
  promoText,
  result,            \* return value of parsePrices / argument of validatePriceResult
  valid,             \* return value of validatePriceResult
  scraper,           \* the scraper whose method is called
  pageText,          \* this.page.textContent('body')
  dom,               \* the texts of the elements the selectors find
  invoked,           \* the page-text fallbacks scrapeSingleProduct has called, in order
  located,           \* return value of extractRegularPriceFromPage
  pagePrice,         \* return value of extractPriceFromPage
  title,             \* argument of extractBrandFromTitle and extractSizeFromTitle
  brand,             \* return value of extractBrandFromTitle
  size,              \* return value of extractSizeFromTitle
  product,           \* the Product a scraper path returns, or null
  now,                  \* the clock, in hours
  deduplicationHours,   \* DiscordAlert: constructor argument
  deduplicationCache,   \* DiscordAlert: the keys of the deals marked as sent
  timers,               \* the setTimeout callbacks of markAsSent not yet run
  products,             \* arguments of the last sendDealsAlert call
  minDiscountPercent,
  batches,              \* the batches of the call that sendMessage has not been given yet
  sent,                 \* the sendMessage calls so far, with their outcome
  calls,                \* the number of sendDealsAlert calls so far
  browser,           \* BaseScraper: the fields browser, context and page, "null" or "set"
  context,
  page,
  open,              \* the browser resources that are open
  config,            \* BaseScraper: the SiteConfig of the retailer
  urlsLeft,          \* the productUrls that scrapeProducts has not handled yet
  maxRetries,        \* argument of navigateToUrl
  attempt,           \* local of navigateToUrl
  navigation,        \* the outcomes of the page.goto calls made for the URL, in order
  waits,             \* the waits before a retry made for the URL, in ms
  errors             \* the number of ScrapingErrors collected

scraperVars == <<scraper, pageText, dom, invoked, located, pagePrice, title, brand>>

outputVars == <<size, product>>

parserVars ==
  <<priceText, trimmed, parsed, currentPriceText, regularPriceText, promoText, result, valid>>

alertVars ==
  <<now, deduplicationHours, deduplicationCache, timers, products, minDiscountPercent, batches,
    sent, calls>>

browserVars ==
  <<browser, context, page, open, config, urlsLeft, maxRetries, attempt, navigation, waits,
    errors>>

restVars == <<outputVars, alertVars, browserVars>>

vars ==
  <<fn, pc, priceText, trimmed, parsed, currentPriceText, regularPriceText, promoText,
    result, valid, scraperVars, restVars>>

\* no scraper is at work
NoScraper ==
  /\ scraper = "none"
  /\ pageText = <<>>
  /\ dom = NoDom
  /\ invoked = <<>>
  /\ located = <<>>
  /\ pagePrice = <<>>
  /\ title = <<>>
  /\ brand = <<>>
  /\ size = <<>>
  /\ product = <<>>

\* no alert has been asked for
NoAlert ==
  /\ now = 0
  /\ deduplicationHours = DefaultDeduplicationHours
  /\ deduplicationCache = {}
  /\ timers = {}
  /\ products = <<>>
  /\ minDiscountPercent = DefaultMinDiscountPercent
  /\ batches = <<>>
  /\ sent = <<>>
  /\ calls = 0

\* no scraper has been constructed
NoBrowser ==
  /\ browser = "null" /\ context = "null" /\ page = "null"
  /\ open = {}
  /\ config = [maxRetries |-> DefaultMaxRetries]
  /\ urlsLeft = 0
  /\ maxRetries = DefaultMaxRetries
  /\ attempt = 0
  /\ navigation = <<>>
  /\ waits = <<>>
  /\ errors = 0

NoService == NoAlert /\ NoBrowser

InitParsePrice ==
  /\ fn = "parsePrice"
  /\ priceText \in ParsePriceArgs
  /\ currentPriceText = UndefinedArg /\ regularPriceText = UndefinedArg
  /\ promoText = UndefinedArg
  /\ result = EmptyResult

InitParsePrices ==
  /\ fn = "parsePrices"
  /\ priceText = UndefinedArg
  /\ currentPriceText \in PricePairArgs /\ regularPriceText \in PricePairArgs
  /\ promoText \in PromoArgs
  /\ result = EmptyResult

InitValidate ==
  /\ fn = "validatePriceResult"
  /\ priceText = UndefinedArg
  /\ currentPriceText = UndefinedArg /\ regularPriceText = UndefinedArg
  /\ promoText = UndefinedArg
  /\ result \in CandidateResults

Init ==
  /\ pc = "call"
  /\ trimmed = <<>>
  /\ parsed = Absent
  /\ valid = FALSE
  /\ (InitParsePrice \/ InitParsePrices \/ InitValidate)
  /\ NoScraper
  /\ NoService

\* parsePrice, lines 130-137: the guards
ParsePriceGuard ==
  /\ fn = "parsePrice" /\ pc = "call"
  /\ IF parsePriceThrows(priceText)
     THEN pc' = "threw" /\ trimmed' = trimmed
     ELSE IF parsePriceRejects(priceText)
     THEN pc' = "done" /\ trimmed' = trimmed
     ELSE pc' = "extract" /\ trimmed' = trim(priceText.str)
  /\ parsed' = Absent
  /\ UNCHANGED <<fn, priceText, currentPriceText, regularPriceText, promoText, result, valid>>
  /\ UNCHANGED <<scraperVars, restVars>>

\* parsePrice, lines 139-150: extraction and the result object
ParsePriceExtract ==
  /\ fn = "parsePrice" /\ pc = "extract"
  /\ parsed' = parseTrimmed(trimmed)
  /\ pc' = "done"
  /\ UNCHANGED <<fn, priceText, trimmed, currentPriceText, regularPriceText, promoText,
                 result, valid>>
  /\ UNCHANGED <<scraperVars, restVars>>

\* parsePrices, lines 156-198, called on its own or by scrapeSingleProduct
ParsePrices ==
  /\ <<fn, pc>> \in {<<"parsePrices", "call">>, <<"scrapeSingleProduct", "parsePrices">>,
                     <<"parseProductCard", "parsePrices">>}
  /\ IF parsePricesThrows(currentPriceText, regularPriceText, promoText)
     THEN pc' = "threw" /\ result' = result
     ELSE /\ result' = parsePrices(currentPriceText, regularPriceText, promoText)
          /\ pc' = "done"
  /\ UNCHANGED <<fn, priceText, trimmed, parsed, currentPriceText, regularPriceText,
                 promoText, valid>>
  /\ UNCHANGED <<scraperVars, restVars>>

\* validatePriceResult on the result of parsePrices, as the scrapers call it
ValidateParsed ==
  /\ fn = "parsePrices" /\ pc = "done"
  /\ valid' = validatePriceResult(result)
  /\ pc' = "validated"
  /\ UNCHANGED <<fn, priceText, trimmed, parsed, currentPriceText, regularPriceText,
                 promoText, result>>
  /\ UNCHANGED <<scraperVars, restVars>>

\* validatePriceResult on a hand-built result
ValidateCandidate ==
  /\ fn = "validatePriceResult" /\ pc = "call"
  /\ valid' = validatePriceResult(result)
  /\ pc' = "validated"
  /\ UNCHANGED <<fn, priceText, trimmed, parsed, currentPriceText, regularPriceText,
                 promoText, result>>
  /\ UNCHANGED <<scraperVars, restVars>>

Next ==
  \/ ParsePriceGuard
  \/ ParsePriceExtract
  \/ ParsePrices
  \/ ValidateParsed
  \/ ValidateCandidate

Spec == Init /\ [][Next]_vars

(***************************************************************************)
(* The scrapers: the page-text fallbacks called on their own,              *)
(* extractBrandFromTitle, and the price steps of scrapeSingleProduct from  *)
(* the point where the title has been found.                               *)
(***************************************************************************)
\* the parser has not been called
NoParse ==
  /\ priceText = UndefinedArg
  /\ trimmed = <<>>
  /\ parsed = Absent
  /\ currentPriceText = UndefinedArg
  /\ regularPriceText = UndefinedArg
  /\ promoText = UndefinedArg
  /\ result = EmptyResult
  /\ valid = FALSE

InitExtractRegularPrice ==
  /\ fn = "extractRegularPriceFromPage"
  /\ pc = "call"
  /\ scraper \in Scrapers
  /\ pageText \in LocatorPages
  /\ \E elements \in StrikethroughLists :
       /\ scraper = "petsmart" => elements = <<>>
       /\ dom = [NoDom EXCEPT !.strikethrough = elements]
  /\ title = <<>>

InitExtractPrice ==
  /\ fn = "extractPriceFromPage"
  /\ pc = "call"
  /\ scraper \in Scrapers
  /\ pageText \in CurrencyPages
  /\ dom = NoDom
  /\ title = <<>>

InitExtractBrand ==
  /\ fn = "extractBrandFromTitle"
  /\ pc = "call"
  /\ scraper \in Scrapers
  /\ pageText = <<>>
  /\ dom = NoDom
  /\ title \in Titles

InitExtractSize ==
  /\ fn = "extractSizeFromTitle"
  /\ pc = "call"
  /\ scraper = "shoppers"
  /\ pageText = <<>>
  /\ dom = NoDom
  /\ title \in SizeTitles

InitScrapeSingleProduct ==
  /\ fn = "scrapeSingleProduct"
  /\ pc = "currentPrice"
  /\ scraper \in Scrapers
  /\ \/ /\ pageText \in ScrapePages
        /\ \E c1 \in CurrentElementTexts, c2 \in CurrentElementTexts,
              r1 \in RegularElementTexts, r2 \in RegularElementTexts,
              p1 \in PromoElementTexts, p2 \in PromoElementTexts :
             dom = [currentPrice |-> <<c1, c2>>, regularPrice |-> <<r1, r2>>,
                    promo |-> <<p1, p2>>, strikethrough |-> <<>>]
     \/ /\ pageText \in BarePages
        /\ dom = NoDom
  /\ title = <<>>

\* a product card of a category page: the first entry of each pair of dom is
\* the card's element for the configured selector
InitParseProductCard ==
  /\ fn = "parseProductCard"
  /\ pc = "card"
  /\ scraper \in Scrapers
  /\ pageText = <<>>
  /\ \E c \in CurrentElementTexts, r \in CardRegularTexts, p \in PromoElementTexts :
       dom = [currentPrice |-> <<c, <<>>>>, regularPrice |-> <<r, <<>>>>, promo |-> <<p, <<>>>>,
              strikethrough |-> <<>>]
  /\ title = <<>>

InitScraper ==
  /\ NoParse
  /\ invoked = <<>>
  /\ located = <<>>
  /\ pagePrice = <<>>
  /\ brand = <<>>
  /\ size = <<>>
  /\ product = <<>>
  /\ NoService
  /\ \/ InitExtractRegularPrice
     \/ InitExtractPrice
     \/ InitExtractBrand
     \/ InitExtractSize
     \/ InitScrapeSingleProduct
     \/ InitParseProductCard

\* extractRegularPriceFromPage of the scraper at work
extractRegularPriceFromPage(s, text, elements) ==
  IF s = "shoppers" THEN shoppersRegularPriceFromPage(text, elements)
  ELSE petsmartRegularPriceFromPage(text)

\* mutant: a || c, the second selector is not tried
FirstTruthySkippingSecond(a, b, c) == IF a # <<>> THEN a ELSE c

\* a || b || c of values that are a string or null
FirstTruthy(a, b, c) == IF a # <<>> THEN a ELSE IF b # <<>> THEN b ELSE c

\* extractRegularPriceFromPage, called on its own or by scrapeSingleProduct,
\* which takes the result as regularPriceText
ExtractRegularPriceFromPage ==
  /\ <<fn, pc>> \in {<<"extractRegularPriceFromPage", "call">>,
                     <<"scrapeSingleProduct", "extractRegularPriceFromPage">>}
  /\ located' = extractRegularPriceFromPage(scraper, pageText, dom.strikethrough)
  /\ IF fn = "scrapeSingleProduct"
     THEN /\ regularPriceText' = IF located' = <<>> THEN NullArg ELSE Str(located'[2])
          /\ pc' = "promo"
     ELSE /\ regularPriceText' = regularPriceText
          /\ pc' = "done"
  /\ UNCHANGED <<fn, priceText, trimmed, parsed, currentPriceText, promoText,
                 result, valid, scraper, pageText, dom, invoked, pagePrice, title, brand, restVars>>

\* extractPriceFromPage, called on its own or by scrapeSingleProduct, which
\* takes the result as currentPriceText
ExtractPriceFromPage ==
  /\ <<fn, pc>> \in {<<"extractPriceFromPage", "call">>,
                     <<"scrapeSingleProduct", "extractPriceFromPage">>}
  /\ pagePrice' = extractPriceFromPage(pageText)
  /\ IF fn = "scrapeSingleProduct"
     THEN /\ currentPriceText' = ArgOf(pagePrice')
          /\ pc' = "regularPrice"
     ELSE /\ currentPriceText' = currentPriceText
          /\ pc' = "done"
  /\ UNCHANGED <<fn, priceText, trimmed, parsed, regularPriceText, promoText,
                 result, valid, scraper, pageText, dom, invoked, located, title, brand, restVars>>

ExtractBrandFromTitle ==
  /\ fn = "extractBrandFromTitle" /\ pc = "call"
  /\ brand' = extractBrandFromTitle(scraper, title)
  /\ pc' = "done"
  /\ UNCHANGED <<fn, priceText, trimmed, parsed, currentPriceText, regularPriceText, promoText,
                 result, valid, scraper, pageText, dom, invoked, located, pagePrice, title, restVars>>

ExtractSizeFromTitle ==
  /\ fn = "extractSizeFromTitle" /\ pc = "call"
  /\ size' = extractSizeFromTitle(title)
  /\ pc' = "done"
  /\ UNCHANGED <<fn, priceText, trimmed, parsed, currentPriceText, regularPriceText, promoText,
                 result, valid, scraperVars, product, alertVars, browserVars>>

\* scrapeSingleProduct: const currentPriceText = safeTextContent(configured) ||
\* safeTextContent(generic) || extractPriceFromPage()
ScrapeCurrentPrice ==
  /\ fn = "scrapeSingleProduct" /\ pc = "currentPrice"
  /\ LET structured == FirstTruthy(safeTextContent(dom.currentPrice[1]),
                                   safeTextContent(dom.currentPrice[2]), <<>>)
     IN IF structured # <<>>
        THEN /\ currentPriceText' = ArgOf(structured)
             /\ invoked' = invoked
             /\ pc' = "regularPrice"
        ELSE /\ currentPriceText' = currentPriceText
             /\ invoked' = Append(invoked, "extractPriceFromPage")
             /\ pc' = "extractPriceFromPage"
  /\ UNCHANGED <<fn, priceText, trimmed, parsed, regularPriceText, promoText, result, valid,
                 scraper, pageText, dom, located, pagePrice, title, brand, restVars>>

\* scrapeSingleProduct: regularPriceText from the configured selector, then
\* the generic selectors, then extractRegularPriceFromPage()
ScrapeRegularPrice ==
  /\ fn = "scrapeSingleProduct" /\ pc = "regularPrice"
  /\ LET structured == FirstTruthy(safeTextContent(dom.regularPrice[1]),
                                   safeTextContent(dom.regularPrice[2]), <<>>)
     IN IF structured # <<>>
        THEN /\ regularPriceText' = ArgOf(structured)
             /\ invoked' = invoked
             /\ pc' = "promo"
        ELSE /\ regularPriceText' = regularPriceText
             /\ invoked' = Append(invoked, "extractRegularPriceFromPage")
             /\ pc' = "extractRegularPriceFromPage"
  /\ UNCHANGED <<fn, priceText, trimmed, parsed, currentPriceText, promoText, result, valid,
                 scraper, pageText, dom, located, pagePrice, title, brand, restVars>>

\* scrapeSingleProduct: promoText from the configured selector, then the
\* generic selectors; parsePrices is called next
ScrapePromo ==
  /\ fn = "scrapeSingleProduct" /\ pc = "promo"
  /\ promoText' = ArgOf(FirstTruthy(safeTextContent(dom.promo[1]),
                                    safeTextContent(dom.promo[2]), <<>>))
  /\ pc' = "parsePrices"
  /\ UNCHANGED <<fn, priceText, trimmed, parsed, currentPriceText, regularPriceText, result,
                 valid, scraperVars, restVars>>

\* the text a card hands to parsePrices: Shoppers takes textContent() of the
\* element or null, PetSmart takes textContent?.trim() and null when $eval
\* finds no element
cardText(s, elementText) ==
  IF elementText = <<>> THEN NullArg
  ELSE IF s = "petsmart" THEN Str(trim(elementText[1]))
  ELSE Str(elementText[1])

\* priceResult.currentPrice?.value
ValueOf(price) == IF IsPresent(price) THEN Some(Get(price).value) ELSE Absent

\* the price fields of the Product object literal
productOf(s, res) ==
  [retailer |-> s,
   current_price |-> ValueOf(res.currentPrice),
   regular_price |-> ValueOf(res.regularPrice),
   percent_off |-> IF IsPresent(res.discountPercent)
                   THEN Some(Whole(Get(res.discountPercent))) ELSE Absent]

\* what a scraper returns for a price result: PetSmart returns null (skips
\* the card) when validation fails, Shoppers builds the product at once
emittedProduct(s, res) ==
  IF s = "petsmart" /\ (~validatePriceResult(res) \/ ~IsPresent(res.currentPrice))
  THEN <<>>
  ELSE <<productOf(s, res)>>

\* parseProductCard of Shoppers and the card loop of PetSmart's
\* scrapeCategoryPage, up to the call of parsePrices; the title is present
ReadCard ==
  /\ fn = "parseProductCard" /\ pc = "card"
  /\ currentPriceText' = cardText(scraper, dom.currentPrice[1])
  /\ regularPriceText' = cardText(scraper, dom.regularPrice[1])
  /\ promoText' = cardText(scraper, dom.promo[1])
  /\ pc' = IF scraper = "petsmart" /\ ~Truthy(currentPriceText') THEN "returned"
           ELSE "parsePrices"
  /\ UNCHANGED <<fn, priceText, trimmed, parsed, result, valid, scraperVars, restVars>>

\* the end of scrapeSingleProduct and of a card: the product that is
\* returned, null after an exception
EmitProduct ==
  /\ fn \in {"scrapeSingleProduct", "parseProductCard"}
  /\ pc \in {"done", "threw"}
  /\ product' = IF pc = "threw" THEN <<>> ELSE emittedProduct(scraper, result)
  /\ pc' = "returned"
  /\ UNCHANGED <<fn, priceText, trimmed, parsed, currentPriceText, regularPriceText, promoText,
                 result, valid, scraperVars, size, alertVars, browserVars>>

\* not a number, the result of parseFloat on a text that starts with no
\* number: no decimal has a negative exponent
NaN == <<0, -1>>

IsNaN(v) == v[2] < 0

\* a value that is a number and neither 0 nor NaN, or a string that is not empty
TruthyNumber(v) == v # <<>> /\ ~IsNaN(v[1]) /\ v[1][1] # 0

\* group 1 of the first match of /\$(\d+(?:\.\d{2})?)/ in s, <<>> for no match
dollarAmountMatch(s) ==
  LET starts == {i \in 1..Len(s) : s[i] = "$" /\ IsDigit(At(s, i + 1))}
  IN IF starts = {} THEN <<>>
     ELSE LET i == CHOOSE i \in starts : \A j \in starts : i <= j
              p == i + 1 + DigitRun(s, i + 1)
              q == IF At(s, p) = "." /\ IsDigit(At(s, p + 1)) /\ IsDigit(At(s, p + 2))
                   THEN p + 3 ELSE p
          IN <<SubSeq(s, i + 1, q - 1)>>

\* match ? parseFloat(match[1]) : undefined
matchedPrice(s) ==
  IF dollarAmountMatch(s) = <<>> THEN Absent ELSE Some(parseFloat(dollarAmountMatch(s)[1]))

\* RealBrowserScraper.extractShoppersProduct from the text of the price
\* container on: the Product, or <<>> for null.  strikethroughText is a
\* string, or null when the container has no strikethrough element.
\* percent_off is the double nearest to the tenths it is rounded to.
extractShoppersProduct(containerText, strikethroughText) ==
  IF containerText = <<>> THEN <<>>
  ELSE LET currentPrice == matchedPrice(containerText)
           regularPrice == IF strikethroughText.type = "string"
                           THEN matchedPrice(strikethroughText.str) ELSE Absent
           hasDiscount == /\ TruthyNumber(currentPrice) /\ TruthyNumber(regularPrice)
                          /\ currentPrice # regularPrice
       IN <<[retailer |-> "shoppers",
             current_price |-> currentPrice,
             regular_price |-> regularPrice,
             percent_off |-> IF hasDiscount
                             THEN Some(Canon(<<RoundedTenths(currentPrice[1], regularPrice[1]), 1>>))
                             ELSE Absent]>>

\* answer ? parseFloat(answer.replace(/[^0-9.]/g, '')) : undefined
answeredPrice(answer) ==
  LET cleaned == SelectSeq(answer, LAMBDA c : IsDigit(c) \/ c = ".")
  IN IF answer = <<>> THEN Absent
     ELSE IF IsDigit(At(cleaned, 1)) \/ (At(cleaned, 1) = "." /\ IsDigit(At(cleaned, 2)))
     THEN Some(parseFloat(cleaned))
     ELSE Some(NaN)

\* ManualFallback.promptForProductData from the answers on: the Product, or
\* <<>> for null
promptForProductData(retailer, currentPrice, regularPrice, confirmed) ==
  IF currentPrice = <<"s", "k", "i", "p">> \/ ~confirmed THEN <<>>
  ELSE LET currentPriceValue == answeredPrice(currentPrice)
           regularPriceValue == answeredPrice(regularPrice)
       IN <<[retailer |-> retailer,
             current_price |-> currentPriceValue,
             regular_price |-> regularPriceValue,
             percent_off |->
               IF /\ TruthyNumber(currentPriceValue) /\ TruthyNumber(regularPriceValue)
                  /\ NumLess(currentPriceValue[1], regularPriceValue[1])
               THEN Some(Whole(RoundedPercent(currentPriceValue[1], regularPriceValue[1])))
               ELSE Absent]>>

\* the real-browser scraper reads the price container of a product page
InitExtractShoppersProduct ==
  /\ fn = "extractShoppersProduct"
  /\ pc = "call"
  /\ scraper = "shoppers"
  /\ \E pair \in PriceContainers :
       currentPriceText = Str(pair[1]) /\ regularPriceText = ArgOf(pair[2])

\* the operator is asked for the prices of a product
InitPromptForProductData ==
  /\ fn = "promptForProductData"
  /\ pc = "call"
  /\ scraper \in Scrapers
  /\ currentPriceText \in {Str(a) : a \in CurrentAnswers}
  /\ regularPriceText \in {Str(a) : a \in RegularAnswers}

InitProducer ==
  /\ priceText = UndefinedArg
  /\ trimmed = <<>>
  /\ parsed = Absent
  /\ promoText = UndefinedArg
  /\ result = EmptyResult
  /\ valid = FALSE
  /\ pageText = <<>>
  /\ invoked = <<>>
  /\ located = <<>>
  /\ pagePrice = <<>>
  /\ title = <<>>
  /\ brand = <<>>
  /\ size = <<>>
  /\ product = <<>>
  /\ NoService
  /\ \/ /\ currentPriceText = UndefinedArg /\ regularPriceText = UndefinedArg
        /\ InitParseProductCard
     \/ dom = NoDom /\ InitExtractShoppersProduct
     \/ dom = NoDom /\ InitPromptForProductData

ExtractShoppersProduct ==
  /\ fn = "extractShoppersProduct" /\ pc = "call"
  /\ product' = extractShoppersProduct(currentPriceText.str, regularPriceText)
  /\ pc' = "returned"
  /\ UNCHANGED <<fn, priceText, trimmed, parsed, currentPriceText, regularPriceText, promoText,
                 result, valid, scraperVars, size, alertVars, browserVars>>

\* the answer to 'Looks correct? (y/n)' is the input of the step
PromptForProductData ==
  /\ fn = "promptForProductData" /\ pc = "call"
  /\ \E confirmed \in BOOLEAN :
       product' = promptForProductData(scraper, currentPriceText.str, regularPriceText.str,
                                       confirmed)
  /\ pc' = "returned"
  /\ UNCHANGED <<fn, priceText, trimmed, parsed, currentPriceText, regularPriceText, promoText,
                 result, valid, scraperVars, size, alertVars, browserVars>>

NextProducer ==
  \/ ReadCard
  \/ ParsePrices
  \/ EmitProduct
  \/ ExtractShoppersProduct
  \/ PromptForProductData

ProducerSpec == InitProducer /\ [][NextProducer]_vars

NextScraper ==
  \/ ExtractRegularPriceFromPage
  \/ ExtractPriceFromPage
  \/ ExtractBrandFromTitle
  \/ ExtractSizeFromTitle
  \/ ScrapeCurrentPrice
  \/ ScrapeRegularPrice
  \/ ScrapePromo
  \/ ReadCard
  \/ ParsePrices
  \/ EmitProduct

ScraperSpec == InitScraper /\ [][NextScraper]_vars

(***************************************************************************)
(* DiscordAlert: sendDealsAlert calls one after another on one instance,   *)
(* the sendMessage calls of each, the clock and the timers of markAsSent.  *)
(* The clock counts hours: a call, its messages and the one-second pauses  *)
(* between them take no time on it.                                        *)
(***************************************************************************)
\* the number of sendDealsAlert calls followed
MaxCalls == 2

\* the hours followed
MaxHours == 3

\* the longest deduplication period tried
MaxDedupHours == 2

InitAlert ==
  /\ fn = "sendDealsAlert"
  /\ pc = "idle"
  /\ NoParse
  /\ NoScraper
  /\ NoBrowser
  /\ now = 0
  /\ deduplicationHours \in 1..MaxDedupHours
  /\ deduplicationCache = {}
  /\ timers = {}
  /\ products = <<>>
  /\ minDiscountPercent = DefaultMinDiscountPercent
  /\ batches = <<>>
  /\ sent = <<>>
  /\ calls = 0

\* sendDealsAlert, lines 52-84: the two filters, the early returns, markAsSent
\* of every new deal and the batches
SendDealsAlert ==
  /\ fn = "sendDealsAlert" /\ pc = "idle"
  /\ calls < MaxCalls
  /\ calls' = calls + 1
  /\ \E ps \in ProductLists, m \in Thresholds :
       /\ products' = ps
       /\ minDiscountPercent' = m
       /\ IF qualifyingDeals(ps, m) = <<>> \/ newDeals(ps, m, deduplicationCache) = <<>>
          THEN /\ pc' = "idle"
               /\ UNCHANGED <<deduplicationCache, timers, batches>>
          ELSE /\ deduplicationCache' =
                    deduplicationCache \cup KeysOf(newDeals(ps, m, deduplicationCache))
               /\ timers' = timers \cup removalTimers(newDeals(ps, m, deduplicationCache),
                                                      now, deduplicationHours)
               /\ batches' = batchDeals(newDeals(ps, m, deduplicationCache), BatchSize)
               /\ pc' = "sending"
  /\ UNCHANGED <<fn, now, deduplicationHours, sent, parserVars, scraperVars, outputVars, browserVars>>

\* sendDealsAlert, lines 86-107: await this.sendMessage(message) for the next
\* batch; a rejection is logged and thrown again, which ends the call
SendMessage ==
  /\ fn = "sendDealsAlert" /\ pc = "sending"
  /\ \E ok \in BOOLEAN :
       /\ sent' = Append(sent, [call |-> calls, at |-> now, threshold |-> minDiscountPercent,
                                deals |-> Head(batches), ok |-> ok])
       /\ batches' = IF ok THEN Tail(batches) ELSE <<>>
       /\ pc' = IF ok /\ Tail(batches) # <<>> THEN "sending" ELSE "idle"
  /\ UNCHANGED <<fn, now, deduplicationHours, deduplicationCache, timers, products,
                 minDiscountPercent, calls, parserVars, scraperVars, outputVars, browserVars>>

\* the callbacks of markAsSent, lines 346-348, whose time has come: the event
\* loop runs the expired timers one after another
TimerFires ==
  /\ fn = "sendDealsAlert"
  /\ \E t \in timers : t.due <= now
  /\ deduplicationCache' = deduplicationCache \ {t.key : t \in {u \in timers : u.due <= now}}
  /\ timers' = {t \in timers : t.due > now}
  /\ UNCHANGED <<fn, pc, now, deduplicationHours, products, minDiscountPercent, batches, sent,
                 calls, parserVars, scraperVars, outputVars, browserVars>>

\* an hour passes between two calls; the timers that are due run first
Tick ==
  /\ fn = "sendDealsAlert" /\ pc = "idle"
  /\ now < MaxHours
  /\ \A t \in timers : t.due > now
  /\ now' = now + 1
  /\ UNCHANGED <<fn, pc, deduplicationHours, deduplicationCache, timers, products,
                 minDiscountPercent, batches, sent, calls, parserVars, scraperVars, outputVars, browserVars>>

NextAlert ==
  \/ SendDealsAlert
  \/ SendMessage
  \/ TimerFires
  \/ Tick

AlertSpec == InitAlert /\ [][NextAlert]_vars

(***************************************************************************)
(* BaseScraper.scrape (src/scrapers/base-scraper.ts): initializeBrowser,   *)
(* scrapeProducts as the retailers' scrapers write it (for each URL        *)
(* navigateToUrl(url), then the extraction, errors collected per URL), and *)
(* cleanup in the finally block.  Each await is a step; a Playwright call  *)
(* resolves or rejects.                                                    *)
(***************************************************************************)
\* the number of product URLs of a scrape call
MaxUrls == 2

\* the largest maxRetries of a SiteConfig
MaxConfigRetries == 4

InitBrowser ==
  /\ fn = "scrape"
  /\ pc = "launch"
  /\ NoParse
  /\ NoScraper
  /\ NoAlert
  /\ browser = "null" /\ context = "null" /\ page = "null"
  /\ open = {}
  /\ config \in [maxRetries : 1..MaxConfigRetries]
  /\ urlsLeft \in 0..MaxUrls
  /\ maxRetries = DefaultMaxRetries
  /\ attempt = 0
  /\ navigation = <<>>
  /\ waits = <<>>
  /\ errors = 0

\* what no step of scrape changes
ScrapeFrame == UNCHANGED <<fn, config, parserVars, scraperVars, outputVars, alertVars>>

\* initializeBrowser, lines 28-31: chromium.launch; a rejection is thrown
\* again, caught by scrape (line 303) and cleanup runs
Launch ==
  /\ fn = "scrape" /\ pc = "launch"
  /\ \E ok \in BOOLEAN :
       IF ok THEN browser' = "set" /\ open' = open \cup {"browser"} /\ pc' = "newContext"
                  /\ errors' = errors
       ELSE pc' = "closePage" /\ errors' = 1 /\ UNCHANGED <<browser, open>>
  /\ UNCHANGED <<context, page, urlsLeft, maxRetries, attempt, navigation, waits>>
  /\ ScrapeFrame

\* initializeBrowser, lines 34-39: this.browser.newContext
NewContext ==
  /\ fn = "scrape" /\ pc = "newContext"
  /\ \E ok \in BOOLEAN :
       IF ok THEN context' = "set" /\ open' = open \cup {"context"} /\ pc' = "newPage"
                  /\ errors' = errors
       ELSE pc' = "closePage" /\ errors' = 1 /\ UNCHANGED <<context, open>>
  /\ UNCHANGED <<browser, page, urlsLeft, maxRetries, attempt, navigation, waits>>
  /\ ScrapeFrame

\* initializeBrowser, line 41: this.context.newPage; scrapeProducts follows
NewPage ==
  /\ fn = "scrape" /\ pc = "newPage"
  /\ \E ok \in BOOLEAN :
       IF ok THEN page' = "set" /\ open' = open \cup {"page"} /\ pc' = "url"
                  /\ errors' = errors
       ELSE pc' = "closePage" /\ errors' = 1 /\ UNCHANGED <<page, open>>
  /\ UNCHANGED <<browser, context, urlsLeft, maxRetries, attempt, navigation, waits>>
  /\ ScrapeFrame

\* scrapeProducts: the head of the loop over productUrls.  The call is
\* navigateToUrl(url): maxRetries takes its default value
ScrapeNextUrl ==
  /\ fn = "scrape" /\ pc = "url"
  /\ IF urlsLeft = 0
     THEN pc' = "closePage" /\ UNCHANGED <<maxRetries, attempt, navigation, waits>>
     ELSE /\ maxRetries' = DefaultMaxRetries
          /\ attempt' = 1
          /\ navigation' = <<>>
          /\ waits' = <<>>
          /\ pc' = "goto"
  /\ UNCHANGED <<browser, context, page, open, urlsLeft, errors>>
  /\ ScrapeFrame

\* scrapeProducts rejects as a whole: caught by scrape, line 303
ScrapeProductsFails ==
  /\ fn = "scrape" /\ pc = "url"
  /\ urlsLeft > 0
  /\ errors' = errors + 1
  /\ pc' = "closePage"
  /\ UNCHANGED <<browser, context, page, open, urlsLeft, maxRetries, attempt, navigation, waits>>
  /\ ScrapeFrame

\* navigateToUrl, lines 65-102: one turn of the loop, page.goto and the
\* wait for dynamic content; after a failure the wait before the retry when
\* attempt < maxRetries, and the throw of line 104 when the loop is over
Goto ==
  /\ fn = "scrape" /\ pc = "goto"
  /\ attempt <= maxRetries
  /\ \E ok \in BOOLEAN :
       /\ navigation' = Append(navigation, ok)
       /\ IF ok THEN pc' = "navigated" /\ UNCHANGED <<attempt, waits>>
          ELSE /\ attempt' = attempt + 1
               /\ waits' = IF attempt < maxRetries THEN Append(waits, waitTime(attempt)) ELSE waits
               /\ pc' = IF attempt < maxRetries THEN "goto" ELSE "navigationFailed"
  /\ UNCHANGED <<browser, context, page, open, urlsLeft, maxRetries, errors>>
  /\ ScrapeFrame

\* scrapeProducts: the page has been reached, the products are extracted
\* and the loop goes on
ExtractProducts ==
  /\ fn = "scrape" /\ pc = "navigated"
  /\ urlsLeft' = urlsLeft - 1
  /\ pc' = "url"
  /\ UNCHANGED <<browser, context, page, open, maxRetries, attempt, navigation, waits, errors>>
  /\ ScrapeFrame

\* scrapeProducts: the catch of the loop body collects the error of navigateToUrl
CollectError ==
  /\ fn = "scrape" /\ pc = "navigationFailed"
  /\ errors' = errors + 1
  /\ urlsLeft' = urlsLeft - 1
  /\ pc' = "url"
  /\ UNCHANGED <<browser, context, page, open, maxRetries, attempt, navigation, waits>>
  /\ ScrapeFrame

\* cleanup, lines 258-261: a rejected close is caught at line 274, logged, and
\* cleanup returns; whether the resource is still open then is not known
ClosePage ==
  /\ fn = "scrape" /\ pc = "closePage"
  /\ IF page = "null" THEN pc' = "closeContext" /\ UNCHANGED <<page, open>>
     ELSE \E ok \in BOOLEAN :
            IF ok THEN page' = "null" /\ open' = open \ {"page"} /\ pc' = "closeContext"
            ELSE /\ page' = page
                 /\ open' \in {open, open \ {"page"}}
                 /\ pc' = "returned"
  /\ UNCHANGED <<browser, context, urlsLeft, maxRetries, attempt, navigation, waits, errors>>
  /\ ScrapeFrame

\* cleanup, lines 263-266
CloseContext ==
  /\ fn = "scrape" /\ pc = "closeContext"
  /\ IF context = "null" THEN pc' = "closeBrowser" /\ UNCHANGED <<context, open>>
     ELSE \E ok \in BOOLEAN :
            IF ok THEN context' = "null" /\ open' = open \ {"context", "page"}
                       /\ pc' = "closeBrowser"
            ELSE /\ context' = context
                 /\ open' \in {open, open \ {"context", "page"}}
                 /\ pc' = "returned"
  /\ UNCHANGED <<browser, page, urlsLeft, maxRetries, attempt, navigation, waits, errors>>
  /\ ScrapeFrame

\* cleanup, lines 268-271; scrape returns after it
CloseBrowser ==
  /\ fn = "scrape" /\ pc = "closeBrowser"
  /\ IF browser = "null" THEN UNCHANGED <<browser, open>>
     ELSE \E ok \in BOOLEAN :
            IF ok THEN browser' = "null" /\ open' = {}
            ELSE browser' = browser /\ open' \in {open, {}}
  /\ pc' = "returned"
  /\ UNCHANGED <<context, page, urlsLeft, maxRetries, attempt, navigation, waits, errors>>
  /\ ScrapeFrame

NextBrowser ==
  \/ Launch
  \/ NewContext
  \/ NewPage
  \/ ScrapeNextUrl
  \/ ScrapeProductsFails
  \/ Goto
  \/ ExtractProducts
  \/ CollectError
  \/ ClosePage
  \/ CloseContext
  \/ CloseBrowser

BrowserSpec == InitBrowser /\ [][NextBrowser]_vars

(***************************************************************************)
(* Claims.                                                                 *)
(***************************************************************************)
ParsePriceDone == fn = "parsePrice" /\ pc = "done"

\* the number is > 0
AboveZero(v) == v[1] > 0

ParsePricesDone == fn = "parsePrices" /\ pc \in {"done", "validated"}

\* the value of a plain amount text: commas dropped, read as a decimal
AmountValue(amount) == parseFloat(RemoveCommas(amount))

\* digits, three-digit comma groups, an optional two-digit fraction, and nothing else
IsGroupedAmount(s) ==
  LET d == DigitRun(s, 1)
      p == AfterGroups(s, d + 1)
  IN /\ d >= 1
     /\ \/ p = Len(s) + 1
        \/ p + 2 = Len(s) /\ s[p] = "." /\ IsDigit(s[p + 1]) /\ IsDigit(s[p + 2])

\* C1 (as claimed): for every text '$' + digits + optional comma groups +
\* optional two-digit fraction that denotes a positive amount, whatever the
\* length of the leading digit run, parsePrice returns a price whose value is
\* the number with the separators removed, and that value is > 0.
C1_Tier1ValueLaw ==
  (/\ ParsePriceDone
   /\ priceText.type = "string"
   /\ At(priceText.str, 1) = "$"
   /\ IsGroupedAmount(Tail(priceText.str))
   /\ AboveZero(AmountValue(Tail(priceText.str))))
  => /\ IsPresent(parsed)
     /\ Get(parsed).value = AmountValue(Tail(priceText.str))
     /\ AboveZero(Get(parsed).value)

\* d is x rounded to the nearest integer, a half rounding up, for x = 100*(r-c)/r
IsRoundedPercentOf(d, c, r) ==
  LET e == IF c[2] > r[2] THEN c[2] ELSE r[2]
      cc == c[1] * Pow10(e - c[2])
      rr == r[1] * Pow10(e - r[2])
  IN 2 * d * rr - rr <= 200 * (rr - cc) /\ 200 * (rr - cc) < 2 * d * rr + rr

\* C2: in a result of parsePrices, discountPercent is round(100*(regular-current)/regular)
\* when both prices are present and regular > current > 0, and is absent (never
\* 0) when regular <= current or a price is missing.
C2_DiscountLaw ==
  ParsePricesDone =>
    LET c == result.currentPrice
        r == result.regularPrice
    IN IF IsPresent(c) /\ IsPresent(r) /\ NumLess(Get(c).value, Get(r).value)
       THEN /\ AboveZero(Get(c).value)
            /\ IsPresent(result.discountPercent)
            /\ IsRoundedPercentOf(Get(result.discountPercent), Get(c).value, Get(r).value)
       ELSE result.discountPercent = Absent

CurrentAbsent(res) == ~IsPresent(res.currentPrice)

RegularBelowCurrent(res) ==
  /\ IsPresent(res.currentPrice) /\ IsPresent(res.regularPrice)
  /\ NumLess(Get(res.regularPrice).value, Get(res.currentPrice).value)

DiscountOutOfRange(res) ==
  /\ IsPresent(res.discountPercent)
  /\ (Get(res.discountPercent) < 0 \/ Get(res.discountPercent) > 100)

CurrentNotPositive(res) ==
  IsPresent(res.currentPrice) /\ ~AboveZero(Get(res.currentPrice).value)

\* C3 (as claimed): validatePriceResult is false exactly when currentPrice is
\* absent, or regularPrice < currentPrice, or discountPercent is outside [0,100].
C3_ValidationLawAsClaimed ==
  pc = "validated" =>
    (valid <=> ~(CurrentAbsent(result) \/ RegularBelowCurrent(result) \/ DiscountOutOfRange(result)))

\* C3 (amended): validatePriceResult is false exactly when currentPrice is
\* absent, or its value is <= 0, or regularPrice < currentPrice, or
\* discountPercent is outside [0,100].
C3_ValidationLaw ==
  pc = "validated" =>
    (valid <=> ~(\/ CurrentAbsent(result) \/ CurrentNotPositive(result)
                 \/ RegularBelowCurrent(result) \/ DiscountOutOfRange(result)))

\* a result with a zero current price and nothing else wrong was rejected
C3_Witness ==
  /\ pc = "validated"
  /\ CurrentNotPositive(result)
  /\ ~RegularBelowCurrent(result) /\ ~DiscountOutOfRange(result)
  /\ ~valid

\* discountPercent is present and is not the percentage derived from the prices
DiscountNotDerived(res) ==
  /\ IsPresent(res.discountPercent)
  /\ ~(/\ IsPresent(res.currentPrice) /\ IsPresent(res.regularPrice)
       /\ AboveZero(Get(res.regularPrice).value)
       /\ IsRoundedPercentOf(Get(res.discountPercent), Get(res.currentPrice).value,
                             Get(res.regularPrice).value))

\* C4 (as claimed): validatePriceResult rejects every result whose
\* discountPercent is present and differs from round(100*(regular-current)/regular).
C4_DerivationEnforcedAsClaimed ==
  (pc = "validated" /\ DiscountNotDerived(result)) => ~valid

WithoutDiscount(res) == [res EXCEPT !.discountPercent = Absent]

\* C4 (amended): of a present discountPercent validatePriceResult checks the
\* range only: outside [0,100] the result is rejected, inside it the verdict
\* is the one the same result gets without a discountPercent.
C4_DiscountRangeOnly ==
  (pc = "validated" /\ IsPresent(result.discountPercent)) =>
    IF DiscountOutOfRange(result) THEN ~valid
    ELSE valid = validatePriceResult(WithoutDiscount(result))

\* a result whose discountPercent contradicts its prices was accepted
C4_Witness ==
  /\ pc = "validated"
  /\ DiscountNotDerived(result)
  /\ IsPresent(result.regularPrice)
  /\ valid

\* a plain number: digits with an optional fraction, and nothing else
IsPlainNumber(s) ==
  LET d == DigitRun(s, 1)
  IN d >= 1 /\ AfterFraction(s, d + 1) = Len(s) + 1

\* the text is a negative amount and nothing else: '-5.99', '-$5.99', '$-5.99'
IsNegativeAmountText(s) ==
  \/ At(s, 1) = "-" /\ IsPlainNumber(SubSeq(s, 2, Len(s)))
  \/ At(s, 1) = "-" /\ At(s, 2) = "$" /\ IsPlainNumber(SubSeq(s, 3, Len(s)))
  \/ At(s, 1) = "$" /\ At(s, 2) = "-" /\ IsPlainNumber(SubSeq(s, 3, Len(s)))

\* the text is a zero amount and nothing else: '$0.00', '0'
IsZeroAmountText(s) ==
  \/ IsPlainNumber(s) /\ ~AboveZero(AmountValue(s))
  \/ At(s, 1) = "$" /\ IsPlainNumber(Tail(s)) /\ ~AboveZero(AmountValue(Tail(s)))

\* C5 (as claimed): parsePrice returns null for every text that is a negative
\* amount ('$-'-prefixed or minus-signed) or an explicitly zero amount, and
\* never returns the magnitude of a negative amount.
C5_NonPositiveRejected ==
  (/\ ParsePriceDone
   /\ priceText.type = "string"
   /\ IsNegativeAmountText(trim(priceText.str)) \/ IsZeroAmountText(trim(priceText.str)))
  => parsed = Absent

\* C6: every non-null result of parsePrice has value > 0, and so has every
\* currentPrice and regularPrice of a result of parsePrices.
C6_ValuePositive ==
  /\ fn = "parsePrice" /\ IsPresent(parsed) => AboveZero(Get(parsed).value)
  /\ ParsePricesDone =>
       /\ IsPresent(result.currentPrice) => AboveZero(Get(result.currentPrice).value)
       /\ IsPresent(result.regularPrice) => AboveZero(Get(result.regularPrice).value)

\* a text holding a zero amount and a positive one was parsed to the positive one
C6_Witness ==
  /\ ParsePriceDone
  /\ includes(priceText.str, <<"$", "0">>)
  /\ IsPresent(parsed)
  /\ AboveZero(Get(parsed).value)

\* the argument is no string, or a string of white space only
IsBlankArg(a) == a.type # "string" \/ \A i \in 1..Len(a.str) : a.str[i] \in WhiteSpace

\* C7: for the empty string, a whitespace-only string, null, undefined and any
\* non-string argument parsePrice returns null, and it does so from its guards:
\* the extraction step is never entered.
C7_BlankRejected ==
  (fn = "parsePrice" /\ IsBlankArg(priceText)) => /\ pc # "extract"
                                                  /\ parsed = Absent

\* parsePrice returned on a whitespace-only string
C7_Witness ==
  /\ ParsePriceDone
  /\ priceText.type = "string" /\ Len(priceText.str) >= 2
  /\ IsBlankArg(priceText)
  /\ parsed = Absent

\* C8 (as claimed): for every 'Save $A - Now $B' with A < 50 and B a different
\* positive amount, parsePrice returns B with isSalePrice true.
C8_SaveCalloutSkipped ==
  ParsePriceDone =>
    \A a, b \in SaveAmounts :
      (/\ priceText = Str(SaveNowText(a, b))
       /\ NumLess(AmountValue(a), Whole(SaveThreshold))
       /\ AmountValue(b) # AmountValue(a)
       /\ AboveZero(AmountValue(b)))
      => /\ IsPresent(parsed)
         /\ Get(parsed).value = AmountValue(b)
         /\ Get(parsed).isSalePrice

\* the result of parsePrice as a number or nothing
ParsedValue == IF IsPresent(parsed) THEN Some(Get(parsed).value) ELSE Absent

\* C9 (as claimed): once the negative check has passed, the first pattern with
\* any match decides the outcome alone, value or null; no later pattern
\* supplies the value.
C9_FirstTierWithMatchDecides ==
  (ParsePriceDone /\ ~parsePriceRejects(priceText) /\ ~HasNegativeMarker(trimmed)) =>
    \A k \in 1..NumPatterns :
      (/\ matchAll(trimmed, k) # <<>>
       /\ \A j \in 1..(k - 1) : matchAll(trimmed, j) = <<>>)
      => ParsedValue = tryPattern(trimmed, k)

\* the '$'-prefixed amounts of a text, whole digit runs included, from position i on
RECURSIVE DollarAmountsFrom(_, _)
DollarAmountsFrom(s, i) ==
  IF i > Len(s) THEN <<>>
  ELSE IF s[i] = "$" /\ IsDigit(At(s, i + 1))
       THEN LET e == AfterFraction(s, AfterGroups(s, i + 1 + DigitRun(s, i + 1)))
            IN <<AmountValue(SubSeq(s, i + 1, e - 1))>> \o DollarAmountsFrom(s, e)
       ELSE DollarAmountsFrom(s, i + 1)

PositiveDollarAmounts(s) == SelectSeq(DollarAmountsFrom(s, 1), IsPositive)

\* C10 (as claimed): for a text holding several '$'-prefixed positive amounts,
\* no save callout and no negative amount, parsePrice returns the leftmost
\* positive amount.
C10_LeftmostAmount ==
  (/\ ParsePriceDone /\ ~parsePriceRejects(priceText)
   /\ Len(PositiveDollarAmounts(trimmed)) >= 2
   /\ ~includes(toLowerCase(trimmed), <<"s", "a", "v", "e">>)
   /\ ~HasNegativeMarker(trimmed))
  => ParsedValue = Some(Head(PositiveDollarAmounts(trimmed)))

\* the argument is a string with at least one character
IsSupplied(a) == a.type = "string" /\ Len(a.str) > 0

\* the input was supplied and parsePrice returns null for it
FailsToParse(a) == IsSupplied(a) /\ ~IsPresent(parsePrice(a))

\* C11: in a result of parsePrices, errors holds one entry for each supplied
\* input that failed to parse, naming the field and the raw text, current before
\* regular; an absent input (null, undefined, empty) adds none; and each field is
\* resolved whatever became of the other.
C11_ErrorAccumulation ==
  ParsePricesDone =>
    LET fc == FailsToParse(currentPriceText)
        fr == FailsToParse(regularPriceText)
        n == (IF fc THEN 1 ELSE 0) + (IF fr THEN 1 ELSE 0)
    IN /\ Len(result.errors) = n
       /\ fc => result.errors[1] = [field |-> "current", raw |-> currentPriceText.str]
       /\ fr => result.errors[n] = [field |-> "regular", raw |-> regularPriceText.str]
       /\ result.currentPrice =
            (IF IsSupplied(currentPriceText) THEN parsePrice(currentPriceText) ELSE Absent)
       /\ result.regularPrice =
            (IF IsSupplied(regularPriceText) THEN parsePrice(regularPriceText) ELSE Absent)

\* both inputs were supplied and both failed: two entries, current first
C11_Witness ==
  /\ ParsePricesDone
  /\ FailsToParse(currentPriceText) /\ FailsToParse(regularPriceText)
  /\ Len(result.errors) = 2
  /\ result.errors[1].field = "current" /\ result.errors[2].field = "regular"

\* every character of s is white space
IsBlank(s) == \A i \in 1..Len(s) : IsSpace(s[i])

\* t is s without its surrounding white space
IsTrimOf(t, s) ==
  /\ Len(t) > 0 /\ ~IsSpace(t[1]) /\ ~IsSpace(t[Len(t)])
  /\ \E i \in 1..Len(s) :
       /\ i + Len(t) - 1 <= Len(s)
       /\ SubSeq(s, i, i + Len(t) - 1) = t
       /\ IsBlank(SubSeq(s, 1, i - 1))
       /\ IsBlank(SubSeq(s, i + Len(t), Len(s)))

\* C12: the promoText of a parsePrices result is the input without its
\* surrounding white space, and is absent (never the empty string) when the
\* input is null, undefined, empty or white space only; the other fields are
\* those of the same call without a promo text.
C12_PromoNormalised ==
  ParsePricesDone =>
    /\ IF promoText.type = "string" /\ ~IsBlank(promoText.str)
       THEN IsPresent(result.promoText) /\ IsTrimOf(Get(result.promoText), promoText.str)
       ELSE result.promoText = Absent
    /\ LET bare == parsePrices(currentPriceText, regularPriceText, UndefinedArg)
       IN /\ result.currentPrice = bare.currentPrice
          /\ result.regularPrice = bare.regularPrice
          /\ result.discountPercent = bare.discountPercent
          /\ result.errors = bare.errors

\* a promo text with surrounding white space was trimmed, beside two parsed prices
C12_Witness ==
  /\ ParsePricesDone
  /\ promoText.type = "string" /\ ~IsBlank(promoText.str) /\ IsSpace(promoText.str[1])
  /\ IsPresent(result.promoText) /\ Len(Get(result.promoText)) < Len(promoText.str)
  /\ IsPresent(result.discountPercent)

(***************************************************************************)
(* Claims about the page-text fallbacks (ScraperSpec).                     *)
(***************************************************************************)
\* extractRegularPriceFromPage, called on its own, has returned
LocatorDone == fn = "extractRegularPriceFromPage" /\ pc = "done"

\* '$' and the number of every qualifier-adjacent match, of either pattern,
\* whose value is within the sane bound
SaneContextCandidates(s) ==
  {<<"$">> \o Group1(s, ContextPatternAt(x[1], s, x[2])[1]) :
     x \in {y \in (1..NumContextPatterns) \X (1..Len(s)) :
              /\ ContextPatternAt(y[1], s, y[2]) # <<>>
              /\ InSaneBound(parseFloat(Group1(s, ContextPatternAt(y[1], s, y[2])[1])))}}

\* the page has no qualifier-adjacent number at all
NoContextMatch(s) ==
  \A k \in 1..NumContextPatterns : FirstContextMatch(k, s) = <<>>

\* C13: when the page text has a qualifier-adjacent number within the sane
\* bound, extractRegularPriceFromPage returns '$' and the number of such a
\* match from its contextual step, without running the later steps.
C13_ContextualFirst ==
  (LocatorDone /\ SaneContextCandidates(pageText) # {}) =>
    /\ located # <<>>
    /\ located[1] = "context"
    /\ located[2] \in SaneContextCandidates(pageText)

\* a value of at most two decimals, in cents
Cents(v) == v[1] * Pow10(2 - v[2])

\* the values of the '$' tokens of the page within the sane bound that occur
\* at least twice and lie in the product-price band
QualifiedValues(s) ==
  LET values == [k \in 1..Len(dollarTokens(s)) |-> parseFloat(RemoveFirstDollar(dollarTokens(s)[k]))]
  IN {v \in {values[k] : k \in 1..Len(values)} :
        /\ InSaneBound(v)
        /\ Cardinality({k \in 1..Len(values) : values[k] = v}) >= MinCount
        /\ Cents(v) > 100 * BandMinDollars /\ Cents(v) < 100 * BandMaxDollars}

\* (higher - lower) / higher * 100 lies in [MinDiscount, MaxDiscount], exactly
PlausibleDiscount(higher, lower) ==
  /\ MinDiscount * Cents(higher) <= 100 * (Cents(higher) - Cents(lower))
  /\ 100 * (Cents(higher) - Cents(lower)) <= MaxDiscount * Cents(higher)

\* exactly two qualified values, with a plausible discount between them
PlausiblePair(s) ==
  /\ Cardinality(QualifiedValues(s)) = 2
  /\ \E h \in QualifiedValues(s), l \in QualifiedValues(s) :
       Cents(l) < Cents(h) /\ PlausibleDiscount(h, l)

\* C14: on a page without a contextual match, the frequency inference of
\* ShoppersScraper proposes a regular price if and only if exactly two
\* distinct '$' values occur at least twice within 1 < value < 200 and their
\* discount lies in [5, 60] inclusive, and the price proposed is the higher.
C14_FrequencyAcceptance ==
  (LocatorDone /\ scraper = "shoppers" /\ NoContextMatch(pageText)) =>
    /\ (located # <<>> /\ located[1] = "frequency") <=> PlausiblePair(pageText)
    /\ (located # <<>> /\ located[1] = "frequency") =>
         \E h \in QualifiedValues(pageText) :
           /\ \A l \in QualifiedValues(pageText) : Cents(l) <= Cents(h)
           /\ located[2] = DollarFixed2(h)

\* C15: in both scrapers, a page without a contextual match and without
\* exactly two frequency-qualified values of plausible discount gets no
\* regular-price candidate from extractRegularPriceFromPage.
C15_AmbiguityRefusal ==
  (LocatorDone /\ NoContextMatch(pageText) /\ ~PlausiblePair(pageText)) => located = <<>>

\* extractPriceFromPage, called on its own, has returned
PriceFallbackDone == fn = "extractPriceFromPage" /\ pc = "done"

\* the tokens of pattern k on the page, cleaned, whose value is within the
\* sane bound
SaneTokens(k, s) == {validPrices(k, s)[j] : j \in 1..Len(validPrices(k, s))}

TokenValue(t) == parseFloat(RemoveFirstDollar(t))

\* the price returned is the lowest of the tokens, or null when there is none
LowestOf(tokens, returned) ==
  IF tokens = {} THEN returned = <<>>
  ELSE /\ returned # <<>>
       /\ returned[1] \in tokens
       /\ \A t \in tokens : NumLeq(TokenValue(returned[1]), TokenValue(t))

\* C16 as claimed: extractPriceFromPage returns the lowest of all the
\* currency-prefixed tokens of the page within the sane bound, of either
\* pattern, and null when there is none.
C16_LowestOfAll ==
  PriceFallbackDone =>
    LowestOf(UNION {SaneTokens(k, pageText) : k \in 1..NumPagePatterns}, pagePrice)

\* C16: extractPriceFromPage returns the lowest of the '$' tokens within the
\* sane bound; only when there is none, the lowest of the 'CA'/'CAD' tokens
\* within the bound; and null when there is none of either.
C16_TieredLowest ==
  PriceFallbackDone =>
    LowestOf(IF SaneTokens(1, pageText) # {} THEN SaneTokens(1, pageText)
             ELSE SaneTokens(2, pageText),
             pagePrice)

\* of several '$' tokens in the bound the lowest was returned, although a
\* 'CAD' token of the page is lower still
C16_Witness ==
  /\ PriceFallbackDone
  /\ Cardinality({TokenValue(t) : t \in SaneTokens(1, pageText)}) >= 2
  /\ pagePrice # <<>>
  /\ \E t \in SaneTokens(2, pageText) : NumLess(TokenValue(t), TokenValue(pagePrice[1]))

\* scrapeSingleProduct is at work
ScrapeFlow == fn = "scrapeSingleProduct"

\* the selector found an element whose text is not white space only
Usable(elementText) ==
  elementText # <<>> /\ \E i \in 1..Len(elementText[1]) : ~IsSpace(elementText[1][i])

StructuredCurrent == \E k \in 1..2 : Usable(dom.currentPrice[k])

StructuredRegular == \E k \in 1..2 : Usable(dom.regularPrice[k])

Invoked(f) == \E i \in 1..Len(invoked) : invoked[i] = f

BrandDone == fn = "extractBrandFromTitle" /\ pc = "done"

\* the curated brands, by position in the list, that the title includes,
\* letter case apart
ListedBrands(brands, t) ==
  {k \in 1..Len(brands) :
     \E i \in 1..Len(t) :
       \A j \in 1..Len(brands[k]) : LowerChar(At(t, i + j - 1)) = LowerChar(brands[k][j])}

\* the first word of the title without trademark glyphs, 'Item' and a '#'
\* suffix
StrippedFirstWord(t) ==
  trim(RemoveHashSuffix(RemoveItemFrom(RemoveGlyphs(FirstWordOf(t)), 1)))

\* C20: extractBrandFromTitle returns the first brand of the curated list, in
\* list order, that the title includes letter case apart; if there is none,
\* the stripped first word when it has at least 3 characters and starts with
\* an uppercase letter; and otherwise no brand.
C20_BrandExtraction ==
  BrandDone =>
    LET brands == commonBrands(scraper)
        listed == ListedBrands(brands, title)
        word == StrippedFirstWord(title)
    IN IF listed # {}
       THEN \E k \in listed : (\A j \in listed : k <= j) /\ brand = <<brands[k]>>
       ELSE IF Len(word) >= 3 /\ word[1] \in UpperLetters
       THEN brand = <<word>>
       ELSE brand = <<>>

\* a title without a curated brand gave its first word, stripped of a '#'
\* suffix or of 'Item'
C20_Witness ==
  /\ BrandDone
  /\ ListedBrands(commonBrands(scraper), title) = {}
  /\ brand # <<>>
  /\ Len(brand[1]) < Len(FirstWordOf(title))

(***************************************************************************)
(* Claims about exceptions (Spec).                                         *)
(***************************************************************************)
\* a call of parsePrice or parsePrices has returned
ParserReturned == fn \in {"parsePrice", "parsePrices"} /\ pc \in {"done", "validated"}

\* the argument is a string, null or undefined
StringOrNullish(a) == a.type = "string" \/ a = NullArg \/ a = UndefinedArg

\* C19: no call of parsePrice on a string, and no call of parsePrices on
\* strings, nulls and undefineds, raises an exception; parsePrice returns a
\* price or null, and parsePrices a result in which a text that does not
\* parse shows as an absent price and an entry of errors.
C19_NeverThrows ==
  /\ (fn = "parsePrice" /\ priceText.type = "string") => pc # "threw"
  /\ (fn = "parsePrices" /\ StringOrNullish(currentPriceText)
        /\ StringOrNullish(regularPriceText) /\ StringOrNullish(promoText)) => pc # "threw"
  /\ (fn = "parsePrice" /\ pc = "done" /\ IsPresent(parsed)) =>
       /\ priceText.type = "string"
       /\ Get(parsed).originalText = trim(priceText.str)
  /\ ParsePricesDone =>
       /\ (result.currentPrice = Absent /\ currentPriceText.type = "string"
             /\ currentPriceText.str # <<>>) =>
            \E i \in 1..Len(result.errors) : result.errors[i].field = "current"
       /\ (result.regularPrice = Absent /\ regularPriceText.type = "string"
             /\ regularPriceText.str # <<>>) =>
            \E i \in 1..Len(result.errors) : result.errors[i].field = "regular"

\* parsePrices returned a result for a text that does not parse, a null and
\* an undefined
C19_Witness ==
  /\ ParsePricesDone
  /\ currentPriceText.type = "string" /\ result.currentPrice = Absent
  /\ Len(result.errors) = 1
  /\ {regularPriceText, promoText} = {NullArg, UndefinedArg}

(***************************************************************************)
(* C21: extractSizeFromTitle returns the match of the first pattern, in    *)
(* list order, that matches the title, with the casing of the unit         *)
(* standardised: a millilitre size comes back with the unit 'mL' whatever  *)
(* its casing and with or without a space before the unit; it returns      *)
(* nothing when no pattern matches.                                        *)
(***************************************************************************)
SizeDone == fn = "extractSizeFromTitle" /\ pc = "done"

\* the patterns that match the title
MatchingSizePatterns(t) == {k \in 1..NumSizePatterns : sizeMatch(k, t) # <<>>}

\* the match of the first pattern, in list order, that matches
FirstSizeMatch(t) ==
  sizeMatch(CHOOSE k \in MatchingSizePatterns(t) : \A j \in MatchingSizePatterns(t) : k <= j, t)[1]

\* the text is a number followed by the millilitre unit in any casing
IsMillilitreSize(m) ==
  /\ Len(m) >= 3
  /\ KeywordAt(m, Len(m) - 1, <<"m", "l">>)
  /\ \A i \in 1..(Len(m) - 2) : IsDigit(m[i]) \/ m[i] = "." \/ IsSpace(m[i])

C21_SizeStandardised ==
  SizeDone =>
    IF MatchingSizePatterns(title) = {} THEN size = <<>>
    ELSE /\ size # <<>>
         /\ toLowerCase(size[1]) = toLowerCase(FirstSizeMatch(title))
         /\ IsMillilitreSize(FirstSizeMatch(title)) =>
              SubSeq(size[1], Len(size[1]) - 1, Len(size[1])) = <<"m", "L">>

(***************************************************************************)
(* C22: parsePrice sets context to one of the qualifier phrases each,      *)
(* per <unit>, from, starting at, up to (lower-cased) only when the phrase *)
(* stands immediately next to the price, keeps the first such phrase of    *)
(* the text, and leaves context absent otherwise; the value is the value   *)
(* of the price whatever the qualifier.                                    *)
(***************************************************************************)
\* the matches of the three patterns whose number is the value returned
PriceSpans(text, value) ==
  {m \in UNION {{matchAll(text, k)[j] : j \in 1..Len(matchAll(text, k))} : k \in 1..NumPatterns} :
     parseFloat(RemoveCommas(Group1(text, m))) = value}

\* the qualifier phrases of the text as <<first position, position after>>
QualifierSpans(text) ==
  {<<i, ContextPatternEnd(toLowerCase(text), i)>> : i \in 1..Len(text)}
    \ {<<i, 0>> : i \in 1..Len(text)}

\* nothing but white space, and the '$' of the price, between phrase and price
NextToPrice(text, q, m) ==
  \/ SkipSpaces(text, q[2]) = m.from
  \/ SkipSpaces(text, q[2]) = m.from - 1 /\ At(text, m.from - 1) = "$"
  \/ SkipSpaces(text, m.to + 1) = q[1]

AdjacentQualifiers(text, value) ==
  {q \in QualifierSpans(text) : \E m \in PriceSpans(text, value) : NextToPrice(text, q, m)}

C22_ContextAdjacent ==
  (ParsePriceDone /\ IsPresent(parsed)) =>
    LET adjacent == AdjacentQualifiers(trimmed, Get(parsed).value)
        first == CHOOSE q \in adjacent : \A r \in adjacent : q[1] <= r[1]
    IN IF adjacent = {} THEN ~IsPresent(Get(parsed).context)
       ELSE Get(parsed).context = Some(toLowerCase(SubSeq(trimmed, first[1], first[2] - 1)))

(***************************************************************************)
(* C23: once a deal has been alerted, a later sendDealsAlert call within   *)
(* the deduplication window sends nothing for a product with the same      *)
(* retailer, product_url and current_price; the deal is sent again only    *)
(* when deduplicationHours have passed; a product without percent_off or   *)
(* below the threshold is never sent.                                      *)
(***************************************************************************)
\* the deal is the same for deduplication
SameDeal(p, q) ==
  /\ p.retailer = q.retailer
  /\ p.product_url = q.product_url
  /\ p.current_price = q.current_price

\* message j holds a deal that message i has delivered
Repeats(i, j) ==
  /\ sent[i].ok
  /\ \E a \in 1..Len(sent[i].deals), b \in 1..Len(sent[j].deals) :
       SameDeal(sent[i].deals[a], sent[j].deals[b])

DeliveredAt(key, hour) ==
  \E i \in 1..Len(sent) :
    /\ sent[i].ok
    /\ sent[i].at = hour
    /\ key \in KeysOf(sent[i].deals)

C29_MarkedOnlyWhenDelivered ==
  (fn = "sendDealsAlert" /\ pc = "idle") =>
    \A t \in timers :
      t.key \in deduplicationCache => DeliveredAt(t.key, t.due - deduplicationHours)

(***************************************************************************)
(* C24: whenever BaseScraper.scrape returns, after success, after a        *)
(* failure of initializeBrowser or scrapeProducts, or after a failure      *)
(* while closing a resource, browser, context and page are null and no     *)
(* browser resource is open.                                               *)
(***************************************************************************)
ScrapeReturned == fn = "scrape" /\ pc = "returned"

C24_NoResourceOutlivesScrape ==
  ScrapeReturned =>
    /\ browser = "null" /\ context = "null" /\ page = "null"
    /\ open = {}

(***************************************************************************)
(* C30: navigateToUrl makes at most maxRetries attempts for a URL, returns *)
(* on the first attempt that succeeds, waits between attempts and not      *)
(* after the last one, throws only when every attempt has failed, and the  *)
(* bound in force when a retailer is scraped is the maxRetries of the      *)
(* retailer's SiteConfig.                                                  *)
(***************************************************************************)
NavigationEnded == fn = "scrape" /\ pc \in {"navigated", "navigationFailed"}

C30_RetryBound ==
  NavigationEnded =>
    /\ Len(navigation) <= config.maxRetries
    /\ Len(waits) = Len(navigation) - 1
    /\ \A i \in 1..(Len(navigation) - 1) : ~navigation[i]
    /\ navigation[Len(navigation)] = (pc = "navigated")
    /\ pc = "navigationFailed" => Len(navigation) = config.maxRetries

\* a scraper has returned from a product page or a product card
ProductReturned == fn \in {"scrapeSingleProduct", "parseProductCard"} /\ pc = "returned"

Emitted == ProductReturned /\ product # <<>>

\* C27: no scraper path (PetSmart product page or category card, Shoppers
\* product page or product card) emits a Product with a missing or
\* non-positive current_price, or with regular_price below current_price.
C27_ValidationHonoured ==
  Emitted =>
    LET p == product[1]
    IN /\ IsPresent(p.current_price)
       /\ ~NumLeq(Get(p.current_price), Whole(0))
       /\ IsPresent(p.regular_price) => ~NumLess(Get(p.regular_price), Get(p.current_price))

\* the located regular price of Shoppers is the candidate of the first step,
\* in the order context, frequency, strikethrough, that produced one
FirstStepWins ==
  LET c1 == contextualRegularPrice(pageText)
      c2 == frequencyRegularPrice(pageText)
      c3 == strikethroughRegularPrice(dom.strikethrough)
  IN /\ c1 # <<>> => located = <<"context", c1[1]>>
     /\ (c1 = <<>> /\ c2 # <<>>) => located = <<"frequency", c2[1]>>
     /\ (c1 = <<>> /\ c2 = <<>> /\ c3 # <<>>) => located = <<"strikethrough", c3[1]>>
     /\ (c1 = <<>> /\ c2 = <<>> /\ c3 = <<>>) => located = <<>>

\* extractRegularPriceFromPage of Shoppers has run on a page with body text
ShoppersLocated ==
  /\ scraper = "shoppers" /\ pageText # <<>>
  /\ \/ fn = "extractRegularPriceFromPage" /\ pc = "done"
     \/ /\ ScrapeFlow /\ Invoked("extractRegularPriceFromPage")
        /\ pc \in {"promo", "parsePrices", "done", "threw", "returned"}

\* C26: the Shoppers extractRegularPriceFromPage tries the contextual search,
\* then the frequency inference, then the strikethrough elements, a later
\* step only when every earlier step gave no candidate; when all three fail
\* it returns null and the product is still returned, with its current price
\* and neither a regular price nor a discount.
C26_EscalationOrder ==
  /\ ShoppersLocated => FirstStepWins
  /\ (ShoppersLocated /\ ProductReturned /\ located = <<>>) =>
       /\ product # <<>>
       /\ product[1].current_price = ValueOf(result.currentPrice)
       /\ product[1].regular_price = Absent
       /\ product[1].percent_off = Absent

\* all three steps failed and the product has its current price only
C26_Witness ==
  /\ ShoppersLocated /\ ProductReturned /\ located = <<>>
  /\ product # <<>> /\ IsPresent(product[1].current_price)

\* both price texts of the product came from the page-text fallbacks
BothFromPageText ==
  /\ ScrapeFlow /\ pc \in {"done", "returned"}
  /\ invoked = <<"extractPriceFromPage", "extractRegularPriceFromPage">>
  /\ pagePrice # <<>> /\ located # <<>>

\* C28: when both price texts of a product come from the page-text fallbacks
\* on the same page text, the regular candidate is not lower than the current
\* candidate and validatePriceResult accepts what parsePrices makes of the
\* pair.
C28_FallbackPairConsistent ==
  BothFromPageText =>
    /\ IsPresent(result.currentPrice) /\ IsPresent(result.regularPrice)
    /\ ~NumLess(Get(result.regularPrice).value, Get(result.currentPrice).value)
    /\ validatePriceResult(result)

\* a producer has returned a product
Produced == pc = "returned" /\ product # <<>>

IsNumber(v) == v # <<>> /\ ~IsNaN(v[1])

\* C25: every percent_off on a Product, whichever producer built it (a
\* scraper through parsePrices, the real-browser scraper, manual entry), is
\* an integer from 0 to 100, is there only when regular_price is above
\* current_price, and is the rounded percentage by which current_price is
\* below regular_price.
C25_DiscountOnProducts ==
  (Produced /\ IsPresent(product[1].percent_off)) =>
    LET p == product[1]
        d == Canon(Get(p.percent_off))
    IN /\ d[2] = 0 /\ d[1] >= 0 /\ d[1] <= 100
       /\ IsNumber(p.current_price) /\ IsNumber(p.regular_price)
       /\ NumLess(Get(p.current_price), Get(p.regular_price))
       /\ IsRoundedPercentOf(d[1], Get(p.current_price), Get(p.regular_price))

=============================================================================
